---- MODULE Spec2Model ----
(***************************************************************************)
(* EzPlist compose canvas: the placement store (useComposeStore in         *)
(* src/src/store/multiRegionStore.ts) and the canvas handlers that call    *)
(* it (src/src/components/ComposeCanvas.tsx).                              *)
(*                                                                         *)
(* World coordinates are integers.  The viewport scale is kept in tenths   *)
(* (scale = 10 is the factor 1.0), the resolution of the zoom steps 0.1    *)
(* and 0.2 of the canvas.                                                  *)
(***************************************************************************)
EXTENDS Integers, Sequences, FiniteSets, TLC

\* ------------------------------------------------------------------ bounds
\* Number of distinct sprite ids the import collaborator can deliver.
NumSprites == 2
\* Longest batch handed to addSprites.
MaxBatch == 2
\* Cap of the z-order counter (the counter itself is unbounded).
MaxZ == 4
\* Most entries the canvas may hold in the specification with repeated ids.
MaxCanvas == 3
\* Number of sprite ids in the specifications of alignment and distribution.
NumLayoutSprites == 3
\* Most alignment/distribution operations applied in a row to one placement.
MaxLayoutOps == 1
\* Number of sprites on the canvas in the specification of distribution.
NumDistSprites == 4
\* Number of sprite ids in the specification of the addSprites staircase.
NumStairSprites == 3
\* Number of sprite ids in the specification with wide sprites.
NumWideSprites == 3
\* Snap candidates on the canvas of the calculateSnap specification.
NumSnapOthers == 2
\* Number of sprite ids in the specification of autoArrange.
NumArrangeSprites == 3
\* Number of sprite ids in the specification of the pointer handlers.
NumPointerSprites == 2
\* Most presses of a pointer button in one behaviour of that specification.
MaxPresses == 2
\* Most presses over a sprite in one behaviour of the drag specification.
MaxDrags == 1
\* Number of sprites on the canvas in the specification of multi-sprite drags.
NumMultiSprites == 3
\* Most key presses in one behaviour of the keyboard specification.
MaxKeys == 2
\* Number of sprites in the specification of autoArrange rows.
NumRowSprites == 4
\* Panning keeps the viewport offset within this distance of the origin.
MaxOffset == 20

\* ------------------------------------------------------- program constants
\* addSprites staircase (multiRegionStore.ts 444-468).
StartX == 20
StartY == 20
Padding == 10
WrapWidth == 2000
RowStep == 200
\* setScale clamp and resetView, in tenths (multiRegionStore.ts 577, 583).
MinScale == 1
MaxScale == 50
UnitScale == 10
\* Zoom steps in tenths (ComposeCanvas.tsx 93, 430, 440).
WheelStep == 1
ToolbarStep == 2
\* autoArrange: padding, maxRowWidth
ArrangePadding == 10
MaxRowWidth == 1500
\* The threshold the drag handler passes to calculateSnap, in pixels.
SnapThreshold == 8
\* A marquee selects on release only if wider and higher than this.
MarqueeMin == 5
\* Arrow keys nudge by NudgeStep, by ShiftNudgeStep with Shift held.
NudgeStep == 1
ShiftNudgeStep == 10

\* ------------------------------------------------------------------- state
VARIABLES
  canvasSprites,   \* CanvasSprite[]: <<[sprite, x, y, zIndex], ...>> in store order
  selectedIds,     \* Set<string>
  maxZIndex,       \* number
  scale,           \* number, in tenths
  offsetX,         \* number
  offsetY,         \* number
  activeGuides,    \* SnapGuide[]
  snapEnabled,     \* boolean
  isDragging,      \* boolean
  isSelecting,     \* boolean
  selectionStart,  \* {x, y} | null
  selectionEnd,    \* {x, y} | null
  panState,        \* canvas component: {isPanning, startX, startY, startOffsetX, startOffsetY} | null
  dragState,       \* canvas component: {isDragging, startX, startY, spriteStartPositions} | null
  lastOp,          \* history: the store operation that produced this state
  btfEpoch,        \* history: zIndex values bringToFront assigned since the last clearCanvas
  btfEver,         \* history: zIndex values bringToFront assigned since the store was created
  dupBatchSeen,    \* history: some addSprites batch held the same id twice
  opCount,         \* history: operations counted by the bounded specifications
  spritesheet,     \* region store: SpritesheetInfoEx | null
  regions,         \* region store: AnimationRegion[], as the sequence of their ids
  selectedRegionId, \* region store: string | null
  regionPreviews,  \* region store: the keys of Map<string, SplitResult>
  pendingPreviews, \* region view: ids whose preview timer or computation is under way
  nextRegion,      \* region store: the number of ids generateId has handed out
  frameCount,      \* animation preview: frames.length
  currentFrame,    \* animation preview: number
  isPlaying,       \* animation preview: boolean
  loopMode,        \* animation preview: 'loop' | 'once' | 'pingpong'
  playDirection    \* animation preview: 1 | -1

spriteVars == <<canvasSprites, selectedIds, maxZIndex>>
viewVars == <<scale, offsetX, offsetY>>
sessionVars == <<activeGuides, snapEnabled, isDragging, isSelecting, selectionStart,
                 selectionEnd, panState, dragState>>
zHistory == <<btfEpoch, btfEver>>
history == <<btfEpoch, btfEver, dupBatchSeen, opCount>>
regionVars == <<spritesheet, regions, selectedRegionId, regionPreviews, pendingPreviews,
                nextRegion>>
playerVars == <<frameCount, currentFrame, isPlaying, loopMode, playDirection>>
otherViews == <<regionVars, playerVars>>
composeVars == <<canvasSprites, selectedIds, maxZIndex, scale, offsetX, offsetY,
                 activeGuides, snapEnabled, isDragging, isSelecting, selectionStart,
                 selectionEnd, panState, dragState, lastOp, btfEpoch, btfEver,
                 dupBatchSeen>>
vars == <<canvasSprites, selectedIds, maxZIndex, scale, offsetX, offsetY,
          activeGuides, snapEnabled, isDragging, isSelecting, selectionStart,
          selectionEnd, panState, dragState, lastOp, btfEpoch, btfEver, dupBatchSeen, opCount,
          regionVars, playerVars>>

\* null, as a value that compares with the records it stands in for.
Null == [null |-> TRUE]

\* ----------------------------------------------------------------- helpers
Ids == 1 .. NumSprites

\* SpriteData records of the import collaborator: the size belongs to the id.
SpriteWidth(id) == IF id % 3 = 0 THEN 50 ELSE 100
SpriteHeight(id) == IF id % 3 = 0 THEN 50 ELSE IF id % 3 = 1 THEN 100 ELSE 60
SpriteData(id) == [id |-> id, width |-> SpriteWidth(id), height |-> SpriteHeight(id)]

Range(s) == {s[i] : i \in DOMAIN s}
SetMax(S) == CHOOSE m \in S : \A n \in S : n <= m
SetMin(S) == CHOOSE m \in S : \A n \in S : m <= n
MathMax(a, b) == IF a >= b THEN a ELSE b
\* Mutant: Math.min answers the larger number.
MathMinAsMax(a, b) == IF a >= b THEN a ELSE b

MathMin(a, b) == IF a <= b THEN a ELSE b

\* Sequences over S of length 0..n, and those without a repeated element.
SeqsUpTo(S, n) == UNION {[1 .. k -> S] : k \in 0 .. n}
IsInjective(s) == \A i, j \in DOMAIN s : s[i] = s[j] => i = j
DistinctSeqsUpTo(S, n) == {s \in SeqsUpTo(S, n) : IsInjective(s)}

CanvasIds(sprites) == {sprites[i].sprite.id : i \in DOMAIN sprites}
IdsUnique(sprites) ==
  \A i, j \in DOMAIN sprites : sprites[i].sprite.id = sprites[j].sprite.id => i = j

\* ------------------------------------------------------------------- Init
\* selectedRegionId: null, the ids of regions being 1, 2, ...
NoRegion == 0

\* The region store as created and the animation preview as mounted, without
\* frames.
RegionsIdle ==
  /\ spritesheet = Null
  /\ regions = <<>>
  /\ selectedRegionId = NoRegion
  /\ regionPreviews = {}
  /\ pendingPreviews = {}
  /\ nextRegion = 0
PlayerIdle ==
  /\ frameCount = 0
  /\ currentFrame = 0
  /\ isPlaying = FALSE
  /\ loopMode = "loop"
  /\ playDirection = 1
OtherViewsIdle == RegionsIdle /\ PlayerIdle

\* The compose store as created.
ComposeIdle ==
  /\ canvasSprites = <<>>
  /\ selectedIds = {}
  /\ maxZIndex = 0
  /\ scale = UnitScale
  /\ offsetX = 0
  /\ offsetY = 0
  /\ activeGuides = <<>>
  /\ snapEnabled = TRUE
  /\ isDragging = FALSE
  /\ isSelecting = FALSE
  /\ selectionStart = Null
  /\ selectionEnd = Null
  /\ panState = Null
  /\ dragState = Null
  /\ lastOp = [op |-> "create"]
  /\ btfEpoch = {}
  /\ btfEver = {}
  /\ dupBatchSeen = FALSE
  /\ opCount = 0

Init == ComposeIdle /\ OtherViewsIdle

\* ------------------------------------------------------------- addSprites
\* Mutant: the batch is not filtered against the ids already present.
NewSpritesNoFilter(sprites, existing) == sprites

\* sprites.filter((s) => !existingIds.has(s.id))
NewSprites(sprites, existing) ==
  SelectSeq(sprites, LAMBDA s : s.id \notin CanvasIds(existing))

\* Mutant: the staircase starts at 20 whatever the canvas holds.
FirstXAlwaysStart(existing) == StartX

\* First x of the staircase: 20, or right of the rightmost sprite present.
FirstX(existing) ==
  IF Len(existing) > 0
    THEN SetMax({existing[i].x + existing[i].sprite.width : i \in DOMAIN existing}) + Padding
    ELSE StartX

\* newSprites.map(...): the cursor (nextX, nextY) and the zIndex run along.
RECURSIVE PlaceSprites(_, _, _, _)
PlaceSprites(newSprites, nextX, nextY, zIndex) ==
  IF newSprites = <<>> THEN <<>>
  ELSE LET sprite == Head(newSprites)
           advX == nextX + sprite.width + Padding
           wrap == advX > WrapWidth
       IN <<[sprite |-> sprite, x |-> nextX, y |-> nextY, zIndex |-> zIndex + 1]>>
            \o PlaceSprites(Tail(newSprites),
                            IF wrap THEN StartX ELSE advX,
                            IF wrap THEN nextY + RowStep ELSE nextY,
                            zIndex + 1)

\* Mutant: every batch is numbered from 1.
AddSpritesResultFromOne(existing, sprites, z) ==
  existing \o PlaceSprites(NewSprites(sprites, existing), FirstX(existing), StartY, 0)

AddSpritesResult(existing, sprites, z) ==
  existing \o PlaceSprites(NewSprites(sprites, existing), FirstX(existing), StartY, z)

AddSprites(sprites) ==
  /\ maxZIndex + Len(sprites) <= MaxZ
  /\ IF NewSprites(sprites, canvasSprites) = <<>>
       THEN UNCHANGED <<canvasSprites, maxZIndex>>
       ELSE /\ canvasSprites' = AddSpritesResult(canvasSprites, sprites, maxZIndex)
            /\ maxZIndex' = maxZIndex + Len(NewSprites(sprites, canvasSprites))
  /\ lastOp' = [op |-> "addSprites",
                filtered |-> Len(sprites) - Len(NewSprites(sprites, canvasSprites))]
  /\ UNCHANGED <<selectedIds, viewVars, sessionVars>>

\* ---------------------------------------------------------- removeSprites
\* ids is used as a set only (new Set(ids), ids.forEach(delete)).
RemoveSprites(ids) ==
  /\ canvasSprites' = SelectSeq(canvasSprites, LAMBDA cs : cs.sprite.id \notin ids)
  /\ selectedIds' = selectedIds \ ids
  /\ lastOp' = [op |-> "removeSprites"]
  /\ UNCHANGED <<maxZIndex, viewVars, sessionVars>>

\* ------------------------------------------------------------ clearCanvas
\* Mutant: the z-order counter survives the clearing.
ClearCanvasKeepCounter ==
  /\ canvasSprites' = <<>>
  /\ selectedIds' = {}
  /\ activeGuides' = <<>>
  /\ lastOp' = [op |-> "clearCanvas"]
  /\ UNCHANGED <<maxZIndex, viewVars, snapEnabled, isDragging, isSelecting,
                 selectionStart, selectionEnd, panState, dragState>>

\* Mutant: the guides of the last drag tick survive the clearing.
ClearCanvasKeepGuides ==
  /\ canvasSprites' = <<>>
  /\ selectedIds' = {}
  /\ maxZIndex' = 0
  /\ lastOp' = [op |-> "clearCanvas"]
  /\ UNCHANGED <<viewVars, activeGuides, snapEnabled, isDragging, isSelecting,
                 selectionStart, selectionEnd, panState, dragState>>

ClearCanvas ==
  /\ canvasSprites' = <<>>
  /\ selectedIds' = {}
  /\ maxZIndex' = 0
  /\ activeGuides' = <<>>
  /\ lastOp' = [op |-> "clearCanvas"]
  /\ UNCHANGED <<viewVars, snapEnabled, isDragging, isSelecting, selectionStart,
                 selectionEnd, panState, dragState>>

\* -------------------------------------------------- updateSpritesPosition
\* new Map(updates.map(...)): the last update of an id wins.
HasUpdate(updates, id) == \E i \in DOMAIN updates : updates[i].id = id
UpdateFor(updates, id) == updates[SetMax({i \in DOMAIN updates : updates[i].id = id})]

\* Mutant: updateSpritesPosition writes nothing.
ApplyUpdatesDropped(sprites, updates) == sprites

ApplyUpdates(sprites, updates) ==
  [i \in DOMAIN sprites |->
     IF HasUpdate(updates, sprites[i].sprite.id)
       THEN [sprites[i] EXCEPT !.x = UpdateFor(updates, sprites[i].sprite.id).x,
                               !.y = UpdateFor(updates, sprites[i].sprite.id).y]
       ELSE sprites[i]]

UpdateSpritesPosition(updates) ==
  /\ canvasSprites' = ApplyUpdates(canvasSprites, updates)
  /\ lastOp' = [op |-> "updateSpritesPosition"]
  /\ UNCHANGED <<selectedIds, maxZIndex, viewVars, sessionVars>>

\* ----------------------------------------------------------- selectSprite
\* Mutant: a call without multi also starts from the current selection.
SelectSpriteIgnoreMulti(selected, id, multi) ==
  IF id \in selected THEN selected \ {id} ELSE selected \cup {id}

\* Mutant: the id is added, never removed.
SelectSpriteAddOnly(selected, id, multi) ==
  (IF multi THEN selected ELSE {}) \cup {id}

SelectSpriteResult(selected, id, multi) ==
  LET newSelected == IF multi THEN selected ELSE {}
  IN IF id \in newSelected THEN newSelected \ {id} ELSE newSelected \cup {id}

SelectSprite(id, multi) ==
  /\ selectedIds' = SelectSpriteResult(selectedIds, id, multi)
  /\ lastOp' = [op |-> "selectSprite", id |-> id, multi |-> multi, before |-> selectedIds]
  /\ UNCHANGED <<canvasSprites, maxZIndex, viewVars, sessionVars>>

\* ---------------------------------------------------- selectSpritesInRect
\* Mutant: the comparisons admit equality.
IntersectsInclusive(cs, rect) ==
  /\ cs.x <= rect.x + rect.width
  /\ cs.x + cs.sprite.width >= rect.x
  /\ cs.y <= rect.y + rect.height
  /\ cs.y + cs.sprite.height >= rect.y

Intersects(cs, rect) ==
  LET spriteRight == cs.x + cs.sprite.width
      spriteBottom == cs.y + cs.sprite.height
      rectRight == rect.x + rect.width
      rectBottom == rect.y + rect.height
  IN cs.x < rectRight /\ spriteRight > rect.x /\ cs.y < rectBottom /\ spriteBottom > rect.y

SpritesInRect(sprites, rect) ==
  {sprites[i].sprite.id : i \in {j \in DOMAIN sprites : Intersects(sprites[j], rect)}}

SelectSpritesInRect(rect) ==
  /\ selectedIds' = SpritesInRect(canvasSprites, rect)
  /\ lastOp' = [op |-> "selectSpritesInRect", rect |-> rect, before |-> selectedIds]
  /\ UNCHANGED <<canvasSprites, maxZIndex, viewVars, sessionVars>>

\* -------------------------------------------------- selectAll, deselectAll
SelectAll ==
  /\ selectedIds' = CanvasIds(canvasSprites)
  /\ lastOp' = [op |-> "selectAll"]
  /\ UNCHANGED <<canvasSprites, maxZIndex, viewVars, sessionVars>>

DeselectAll ==
  /\ selectedIds' = {}
  /\ lastOp' = [op |-> "deselectAll"]
  /\ UNCHANGED <<canvasSprites, maxZIndex, viewVars, sessionVars>>

\* ------------------------------------------------ bringToFront, sendToBack
\* Mutant: the new zIndex is not written to the sprite.
SetZIndexDropped(sprites, id, z) == sprites

SetZIndex(sprites, id, z) ==
  [i \in DOMAIN sprites |->
     IF sprites[i].sprite.id = id THEN [sprites[i] EXCEPT !.zIndex = z] ELSE sprites[i]]

\* Mutant: the counter is read but not advanced.
BringToFrontSameZ(z) == z

BringToFrontZ(z) == z + 1

BringToFront(id) ==
  /\ maxZIndex < MaxZ
  /\ canvasSprites' = SetZIndex(canvasSprites, id, BringToFrontZ(maxZIndex))
  /\ maxZIndex' = BringToFrontZ(maxZIndex)
  /\ lastOp' = [op |-> "bringToFront", id |-> id]
  /\ UNCHANGED <<selectedIds, viewVars, sessionVars>>

SendToBack(id) ==
  /\ canvasSprites' = SetZIndex(canvasSprites, id, 0)
  /\ lastOp' = [op |-> "sendToBack"]
  /\ UNCHANGED <<selectedIds, maxZIndex, viewVars, sessionVars>>

\* ------------------------------------------------- setScale, zoom, resetView
\* Mutant: only the upper limit is applied.
ClampScaleUpperOnly(v) == MathMin(MaxScale, v)

\* Math.max(0.1, Math.min(5, scale)), in tenths.
ClampScale(v) == MathMax(MinScale, MathMin(MaxScale, v))

\* via: "store" for a direct call, or the canvas handler that makes the call.
SetScale(v, via) ==
  /\ scale' = ClampScale(v)
  /\ lastOp' = [op |-> "setScale", value |-> v, via |-> via]
  /\ UNCHANGED <<spriteVars, offsetX, offsetY, sessionVars>>

\* handleWheel: only with Ctrl or Meta; deltaY > 0 zooms out.
HandleWheel(deltaYPositive, ctrlOrMeta) ==
  /\ ctrlOrMeta
  /\ SetScale(scale + (IF deltaYPositive THEN 0 - WheelStep ELSE WheelStep), "wheel")

ZoomOutButton == SetScale(scale - ToolbarStep, "toolbar")
ZoomInButton == SetScale(scale + ToolbarStep, "toolbar")

SetOffset(x, y) ==
  /\ offsetX' = x
  /\ offsetY' = y
  /\ lastOp' = [op |-> "setOffset"]
  /\ UNCHANGED <<spriteVars, scale, sessionVars>>

ResetView ==
  /\ scale' = UnitScale
  /\ offsetX' = 0
  /\ offsetY' = 0
  /\ lastOp' = [op |-> "resetView"]
  /\ UNCHANGED <<spriteVars, sessionVars>>

\* ---------------------------------------------------------- alignSelected
SelectedSprites(sprites, selected) ==
  SelectSeq(sprites, LAMBDA cs : cs.sprite.id \in selected)

LeftOf(cs) == cs.x
TopOf(cs) == cs.y
RightOf(cs) == cs.x + cs.sprite.width
BottomOf(cs) == cs.y + cs.sprite.height
MinX(sel) == SetMin({LeftOf(sel[i]) : i \in DOMAIN sel})
MinY(sel) == SetMin({TopOf(sel[i]) : i \in DOMAIN sel})
MaxRight(sel) == SetMax({RightOf(sel[i]) : i \in DOMAIN sel})
MaxBottom(sel) == SetMax({BottomOf(sel[i]) : i \in DOMAIN sel})

Alignments == {"left", "right", "top", "bottom", "center-h", "center-v"}

\* Mutant: 'left' takes the greatest x of the selection.
AlignTwiceLeftMax(sel, cs, alignment) ==
  CASE alignment = "left" -> 2 * SetMax({LeftOf(sel[i]) : i \in DOMAIN sel})
    [] alignment = "right" -> 2 * (MaxRight(sel) - cs.sprite.width)
    [] alignment = "top" -> 2 * MinY(sel)
    [] alignment = "bottom" -> 2 * (MaxBottom(sel) - cs.sprite.height)
    [] alignment = "center-h" -> MinY(sel) + MaxBottom(sel) - cs.sprite.height
    [] alignment = "center-v" -> MinX(sel) + MaxRight(sel) - cs.sprite.width

\* Twice the coordinate the alignment gives to cs (the centre modes halve).
AlignTwice(sel, cs, alignment) ==
  CASE alignment = "left" -> 2 * MinX(sel)
    [] alignment = "right" -> 2 * (MaxRight(sel) - cs.sprite.width)
    [] alignment = "top" -> 2 * MinY(sel)
    [] alignment = "bottom" -> 2 * (MaxBottom(sel) - cs.sprite.height)
    [] alignment = "center-h" -> MinY(sel) + MaxBottom(sel) - cs.sprite.height
    [] alignment = "center-v" -> MinX(sel) + MaxRight(sel) - cs.sprite.width

AlignsX(alignment) == alignment \in {"left", "right", "center-v"}

AlignUpdates(sel, alignment) ==
  [i \in DOMAIN sel |->
     [id |-> sel[i].sprite.id,
      x |-> IF AlignsX(alignment) THEN AlignTwice(sel, sel[i], alignment) \div 2 ELSE sel[i].x,
      y |-> IF AlignsX(alignment) THEN sel[i].y ELSE AlignTwice(sel, sel[i], alignment) \div 2]]

\* The model keeps integer coordinates: a centre alignment that would give a
\* half unit is not explored.
AlignExact(sel, alignment) ==
  \A i \in DOMAIN sel : AlignTwice(sel, sel[i], alignment) % 2 = 0

AlignSelectedResult(sprites, selected, alignment) ==
  LET sel == SelectedSprites(sprites, selected)
  IN IF Cardinality(selected) < 2 \/ Len(sel) < 2
       THEN sprites
       ELSE ApplyUpdates(sprites, AlignUpdates(sel, alignment))

AlignSelected(alignment) ==
  /\ Len(SelectedSprites(canvasSprites, selectedIds)) >= 2
       => AlignExact(SelectedSprites(canvasSprites, selectedIds), alignment)
  /\ canvasSprites' = AlignSelectedResult(canvasSprites, selectedIds, alignment)
  /\ lastOp' = [op |-> "alignSelected", alignment |-> alignment,
                n |-> Len(SelectedSprites(canvasSprites, selectedIds)),
                changed |-> canvasSprites' # canvasSprites]
  /\ UNCHANGED <<selectedIds, maxZIndex, viewVars, sessionVars>>

\* ----------------------------------------------------- distributeSelected
MainPos(cs, direction) == IF direction = "horizontal" THEN cs.x ELSE cs.y
MainSize(cs, direction) == IF direction = "horizontal" THEN cs.sprite.width ELSE cs.sprite.height

\* Array.prototype.sort with (a, b) => a.x - b.x: ascending and stable.
SortRank(seq, i, direction) ==
  1 + Cardinality({j \in DOMAIN seq :
        \/ MainPos(seq[j], direction) < MainPos(seq[i], direction)
        \/ MainPos(seq[j], direction) = MainPos(seq[i], direction) /\ j < i})
SortByPos(seq, direction) ==
  [k \in DOMAIN seq |-> seq[CHOOSE i \in DOMAIN seq : SortRank(seq, i, direction) = k]]

RECURSIVE SumSizes(_, _)
SumSizes(seq, direction) ==
  IF seq = <<>> THEN 0 ELSE MainSize(Head(seq), direction) + SumSizes(Tail(seq), direction)

\* Mutant: the size of the last sprite is left out of the span.
AvailableSpaceToLastLeading(sorted, direction) ==
  LET first == sorted[1]
      last == sorted[Len(sorted)]
  IN MainPos(last, direction) - MainPos(first, direction) - SumSizes(sorted, direction)

AvailableSpace(sorted, direction) ==
  LET first == sorted[1]
      last == sorted[Len(sorted)]
  IN MainPos(last, direction) + MainSize(last, direction) - MainPos(first, direction)
       - SumSizes(sorted, direction)

\* Mutant: the cursor advances by the gap only.
AdvanceGapOnly(current, size, gap) == current + gap

\* currentX += cs.sprite.width + gap
Advance(current, size, gap) == current + size + gap

RECURSIVE DistributeFrom(_, _, _, _)
DistributeFrom(sorted, current, gap, direction) ==
  IF sorted = <<>> THEN <<>>
  ELSE LET cs == Head(sorted)
       IN <<[id |-> cs.sprite.id,
             x |-> IF direction = "horizontal" THEN current ELSE cs.x,
             y |-> IF direction = "horizontal" THEN cs.y ELSE current]>>
            \o DistributeFrom(Tail(sorted), Advance(current, MainSize(cs, direction), gap),
                              gap, direction)

DistributeUpdates(sorted, direction) ==
  DistributeFrom(sorted, MainPos(sorted[1], direction),
                 AvailableSpace(sorted, direction) \div (Len(sorted) - 1), direction)

\* The model keeps integer coordinates: a distribution whose gap is not a
\* whole number is not explored.
DistributeExact(sorted, direction) ==
  AvailableSpace(sorted, direction) % (Len(sorted) - 1) = 0

DistributeSelectedResult(sprites, selected, direction) ==
  LET sorted == SortByPos(SelectedSprites(sprites, selected), direction)
  IN IF Cardinality(selected) < 3 \/ Len(sorted) < 3
       THEN sprites
       ELSE ApplyUpdates(sprites, DistributeUpdates(sorted, direction))

DistributeSelected(direction) ==
  /\ Len(SelectedSprites(canvasSprites, selectedIds)) >= 3
       => DistributeExact(SortByPos(SelectedSprites(canvasSprites, selectedIds), direction),
                          direction)
  /\ canvasSprites' = DistributeSelectedResult(canvasSprites, selectedIds, direction)
  /\ lastOp' = [op |-> "distributeSelected", direction |-> direction,
                n |-> Len(SelectedSprites(canvasSprites, selectedIds)),
                changed |-> canvasSprites' # canvasSprites]
  /\ UNCHANGED <<selectedIds, maxZIndex, viewVars, sessionVars>>

\* ------------------------------------------------------------ autoArrange
Area(cs) == cs.sprite.width * cs.sprite.height


\* A descending sort that puts the later of two equal areas first.
AreaRankTiesLast(seq, i) ==
  1 + Cardinality({j \in DOMAIN seq :
        \/ Area(seq[j]) > Area(seq[i])
        \/ Area(seq[j]) = Area(seq[i]) /\ j > i})

\* sort((a, b) => area(b) - area(a)): descending and stable.
AreaRank(seq, i) ==
  1 + Cardinality({j \in DOMAIN seq :
        \/ Area(seq[j]) > Area(seq[i])
        \/ Area(seq[j]) = Area(seq[i]) /\ j < i})
SortByArea(seq) ==
  [k \in DOMAIN seq |-> seq[CHOOSE i \in DOMAIN seq : AreaRank(seq, i) = k]]

\* Mutant: a sprite wider than the row wraps even at the start of a row.
WrapsRowAnywhere(currentX, width) == currentX + width > MaxRowWidth

\* if (currentX + cs.sprite.width > maxRowWidth && currentX > 0)
WrapsRow(currentX, width) == currentX + width > MaxRowWidth /\ currentX > 0

\* sorted.forEach(...): the cursor (currentX, currentY) and rowHeight run along.
RECURSIVE ArrangeFrom(_, _, _, _)
ArrangeFrom(sorted, currentX, currentY, rowHeight) ==
  IF sorted = <<>> THEN <<>>
  ELSE LET cs == Head(sorted)
           wrap == WrapsRow(currentX, cs.sprite.width)
           x == IF wrap THEN 0 ELSE currentX
           y == IF wrap THEN currentY + rowHeight + ArrangePadding ELSE currentY
           h == IF wrap THEN 0 ELSE rowHeight
       IN <<[id |-> cs.sprite.id, x |-> x, y |-> y]>>
            \o ArrangeFrom(Tail(sorted), x + cs.sprite.width + ArrangePadding, y,
                           MathMax(h, cs.sprite.height))

\* Mutant: autoArrange stores the sorted copy of the canvas.
AutoArrangeSorted(sprites) ==
  IF Len(sprites) = 0 THEN sprites
  ELSE ApplyUpdates(SortByArea(sprites), ArrangeFrom(SortByArea(sprites), 0, 0, 0))

AutoArrangeResult(sprites) ==
  IF Len(sprites) = 0 THEN sprites
  ELSE ApplyUpdates(sprites, ArrangeFrom(SortByArea(sprites), 0, 0, 0))

AutoArrange ==
  /\ canvasSprites' = AutoArrangeResult(canvasSprites)
  /\ lastOp' = [op |-> "autoArrange"]
  /\ UNCHANGED <<selectedIds, maxZIndex, viewVars, sessionVars>>


\* ----------------------------------------------------------- calculateSnap
\* Positions, the result and the guide positions are in half pixels, so that
\* the centre rules (width / 2, height / 2) stay integral; otherSprites and
\* threshold are in pixels.
Abs(n) == IF n < 0 THEN -n ELSE n


\* Mutant: every guide is published as a centre guide.
GuideAsCenter(direction, position, type) ==
  [direction |-> direction, position |-> position, type |-> "center"]

Guide(direction, position, type) ==
  [direction |-> direction, position |-> position, type |-> type]

\* A rule that moves the sprite without recording its guide.
SnapRuleSilent(st, axis, hit, target, guide) ==
  IF hit THEN [st EXCEPT ![axis] = target] ELSE st

\* One `if (Math.abs(..) < threshold) { x = ..; guides.push(..) }`.
SnapRule(st, axis, hit, target, guide) ==
  IF hit THEN [st EXCEPT ![axis] = target, !.guides = Append(@, guide)] ELSE st

\* The body of the loop for one other sprite: five rules for x, five for y.
\* Rules 1, 3 (and 6, 8) read the running x (y); the others read the edges
\* and centres computed once from the input position.
SnapAgainst(st, other, position, spriteSize, threshold) ==
  LET t             == 2 * threshold
      w             == 2 * spriteSize.width
      h             == 2 * spriteSize.height
      spriteRight   == position.x + w
      spriteBottom  == position.y + h
      spriteCenterX == position.x + spriteSize.width
      spriteCenterY == position.y + spriteSize.height
      otherX        == 2 * other.x
      otherY        == 2 * other.y
      otherRight    == otherX + 2 * other.sprite.width
      otherBottom   == otherY + 2 * other.sprite.height
      otherCenterX  == otherX + other.sprite.width
      otherCenterY  == otherY + other.sprite.height
      s1  == SnapRule(st, "x", Abs(st.x - otherX) < t, otherX,
                      Guide("vertical", otherX, "edge"))
      s2  == SnapRule(s1, "x", Abs(spriteRight - otherRight) < t, otherRight - w,
                      Guide("vertical", otherRight, "edge"))
      s3  == SnapRule(s2, "x", Abs(s2.x - otherRight) < t, otherRight,
                      Guide("vertical", otherRight, "edge"))
      s4  == SnapRule(s3, "x", Abs(spriteRight - otherX) < t, otherX - w,
                      Guide("vertical", otherX, "edge"))
      s5  == SnapRule(s4, "x", Abs(spriteCenterX - otherCenterX) < t,
                      otherCenterX - spriteSize.width,
                      Guide("vertical", otherCenterX, "center"))
      s6  == SnapRule(s5, "y", Abs(s5.y - otherY) < t, otherY,
                      Guide("horizontal", otherY, "edge"))
      s7  == SnapRule(s6, "y", Abs(spriteBottom - otherBottom) < t, otherBottom - h,
                      Guide("horizontal", otherBottom, "edge"))
      s8  == SnapRule(s7, "y", Abs(s7.y - otherBottom) < t, otherBottom,
                      Guide("horizontal", otherBottom, "edge"))
      s9  == SnapRule(s8, "y", Abs(spriteBottom - otherY) < t, otherY - h,
                      Guide("horizontal", otherY, "edge"))
      s10 == SnapRule(s9, "y", Abs(spriteCenterY - otherCenterY) < t,
                      otherCenterY - spriteSize.height,
                      Guide("horizontal", otherCenterY, "center"))
  IN s10

RECURSIVE SnapFrom(_, _, _, _, _)
SnapFrom(st, otherSprites, position, spriteSize, threshold) ==
  IF otherSprites = <<>> THEN st
  ELSE SnapFrom(SnapAgainst(st, Head(otherSprites), position, spriteSize, threshold),
                Tail(otherSprites), position, spriteSize, threshold)

CalculateSnap(position, spriteSize, otherSprites, threshold) ==
  SnapFrom([x |-> position.x, y |-> position.y, guides |-> <<>>],
           otherSprites, position, spriteSize, threshold)

\* ------------------------------------------------------------ store inputs
BatchesOf(ids, n) == {[i \in DOMAIN s |-> SpriteData(s[i])] : s \in DistinctSeqsUpTo(ids, n) \ {<<>>}}
AnyBatchesOf(ids, n) == {[i \in DOMAIN s |-> SpriteData(s[i])] : s \in SeqsUpTo(ids, n) \ {<<>>}}
Batches == BatchesOf(Ids, MaxBatch)
IdLists == SUBSET Ids \ {{}}
Rects == {[x |-> 0, y |-> 0, width |-> 20, height |-> 20],
          [x |-> 0, y |-> 0, width |-> 21, height |-> 21],
          [x |-> 120, y |-> 0, width |-> 100, height |-> 300]}

\* --------------------------------------------------------------------- Next
\* The placement store: membership and selection operations.
Next ==
  \/ \E sprites \in Batches : AddSprites(sprites) /\ UNCHANGED <<history, otherViews>>
  \/ \E ids \in IdLists : RemoveSprites(ids) /\ UNCHANGED <<history, otherViews>>
  \/ ClearCanvas /\ UNCHANGED <<history, otherViews>>
  \/ \E id \in Ids, multi \in BOOLEAN : SelectSprite(id, multi) /\ UNCHANGED <<history, otherViews>>
  \/ \E rect \in Rects : SelectSpritesInRect(rect) /\ UNCHANGED <<history, otherViews>>
  \/ SelectAll /\ UNCHANGED <<history, otherViews>>
  \/ DeselectAll /\ UNCHANGED <<history, otherViews>>

Spec == Init /\ [][Next]_vars

\* ------------------------------------------------------------------ SpecIds
\* addSprites with any batch (an id may repeat in it), removeSprites, clearCanvas.
AddAnyBatch(sprites) ==
  /\ Len(canvasSprites) + Len(sprites) <= MaxCanvas
  /\ AddSprites(sprites)
  /\ dupBatchSeen' = (dupBatchSeen \/ ~IsInjective(sprites))
  /\ UNCHANGED <<zHistory, opCount, otherViews>>

NextIds ==
  \/ \E sprites \in AnyBatchesOf(Ids, MaxBatch) : AddAnyBatch(sprites)
  \/ \E ids \in IdLists : RemoveSprites(ids) /\ UNCHANGED <<history, otherViews>>
  \/ ClearCanvas /\ UNCHANGED <<history, otherViews>>

SpecIds == Init /\ [][NextIds]_vars

\* -------------------------------------------------------------------- SpecZ
\* The z-order operations, with the history of what bringToFront assigned.
\* A position update that puts one sprite at the first point of the staircase.
ZUpdates == {<<[id |-> id, x |-> StartX, y |-> StartY]>> : id \in Ids}

BringToFrontLogged(id) ==
  /\ BringToFront(id)
  /\ IF id \in CanvasIds(canvasSprites)
       THEN /\ btfEpoch' = btfEpoch \cup {maxZIndex'}
            /\ btfEver' = btfEver \cup {maxZIndex'}
       ELSE UNCHANGED zHistory
  /\ UNCHANGED <<dupBatchSeen, opCount, otherViews>>

ClearCanvasLogged ==
  /\ ClearCanvas
  /\ btfEpoch' = {}
  /\ UNCHANGED <<btfEver, dupBatchSeen, opCount, otherViews>>

NextZ ==
  \/ \E sprites \in Batches : AddSprites(sprites) /\ UNCHANGED <<history, otherViews>>
  \/ \E ids \in IdLists : RemoveSprites(ids) /\ UNCHANGED <<history, otherViews>>
  \/ ClearCanvasLogged
  \/ \E updates \in ZUpdates : UpdateSpritesPosition(updates) /\ UNCHANGED <<history, otherViews>>
  \/ \E id \in Ids : BringToFrontLogged(id)
  \/ \E id \in Ids : SendToBack(id) /\ UNCHANGED <<history, otherViews>>

SpecZ == Init /\ [][NextZ]_vars

\* ----------------------------------------------------------------- SpecView
\* The viewport: setScale, the zoom handlers of the canvas, setOffset, resetView.
ScaleInputs == (MinScale - 3) .. (MaxScale + 3)
OffsetInputs == {0 - 40, 0, 25}

NextView ==
  \/ \E v \in ScaleInputs : SetScale(v, "store") /\ UNCHANGED <<history, otherViews>>
  \/ \E deltaYPositive \in BOOLEAN, ctrlOrMeta \in BOOLEAN :
        HandleWheel(deltaYPositive, ctrlOrMeta) /\ UNCHANGED <<history, otherViews>>
  \/ ZoomOutButton /\ UNCHANGED <<history, otherViews>>
  \/ ZoomInButton /\ UNCHANGED <<history, otherViews>>
  \/ \E x \in OffsetInputs, y \in OffsetInputs : SetOffset(x, y) /\ UNCHANGED <<history, otherViews>>
  \/ ResetView /\ UNCHANGED <<history, otherViews>>

SpecView == Init /\ [][NextView]_vars

\* ----------------------------------------------------------------- SpecRect
\* Marquee rectangles against the staircase positions of addSprites.
RectGrid ==
  {[x |-> x, y |-> y, width |-> w, height |-> h] :
     x \in {0, 50, 120}, y \in {0, 20, 80},
     w \in {0, 20, 110}, h \in {0, 20, 100}}

NextRect ==
  \/ \E sprites \in Batches : AddSprites(sprites) /\ UNCHANGED <<history, otherViews>>
  \/ \E ids \in IdLists : RemoveSprites(ids) /\ UNCHANGED <<history, otherViews>>
  \/ SelectAll /\ UNCHANGED <<history, otherViews>>
  \/ \E rect \in RectGrid : SelectSpritesInRect(rect) /\ UNCHANGED <<history, otherViews>>

SpecRect == Init /\ [][NextRect]_vars

\* --------------------------------------------------------------- SpecLayout
\* Alignment and distribution.  The initial states are the placements the store
\* reaches by addSprites of some of the layout sprites in id order, then
\* updateSpritesPosition to points of LayoutPoints, then selectSprite calls (an id
\* that is not on the canvas can be selected).
LayoutIds == 1 .. NumLayoutSprites
LayoutPoints == {[x |-> 0, y |-> 0], [x |-> 10, y |-> 0], [x |-> 0, y |-> 20],
                 [x |-> 300, y |-> 20]}
Directions == {"horizontal", "vertical"}

RECURSIVE SetToSeq(_)
SetToSeq(S) == IF S = {} THEN <<>> ELSE <<SetMin(S)>> \o SetToSeq(S \ {SetMin(S)})

Placements ==
  UNION {{[i \in DOMAIN SetToSeq(S) |->
             [sprite |-> SpriteData(SetToSeq(S)[i]), x |-> at[i].x, y |-> at[i].y,
              zIndex |-> i]] :
            at \in [1 .. Cardinality(S) -> LayoutPoints]} :
         S \in SUBSET LayoutIds}

InitLayout ==
  /\ canvasSprites \in Placements
  /\ selectedIds \in SUBSET LayoutIds
  /\ maxZIndex = Len(canvasSprites)
  /\ scale = UnitScale
  /\ offsetX = 0
  /\ offsetY = 0
  /\ activeGuides = <<>>
  /\ snapEnabled = TRUE
  /\ isDragging = FALSE
  /\ isSelecting = FALSE
  /\ selectionStart = Null
  /\ selectionEnd = Null
  /\ panState = Null
  /\ dragState = Null
  /\ lastOp = [op |-> "placed"]
  /\ btfEpoch = {}
  /\ btfEver = {}
  /\ dupBatchSeen = FALSE
  /\ opCount = 0
  /\ OtherViewsIdle

CountedLayoutOp ==
  /\ opCount < MaxLayoutOps
  /\ opCount' = opCount + 1
  /\ UNCHANGED <<zHistory, dupBatchSeen, otherViews>>

NextLayout ==
  \/ \E alignment \in Alignments : AlignSelected(alignment) /\ CountedLayoutOp
  \/ \E direction \in Directions : DistributeSelected(direction) /\ CountedLayoutOp

SpecLayout == InitLayout /\ [][NextLayout]_vars


\* ----------------------------------------------------------- SpecDistribute
\* Distribution on a canvas that holds every distribution sprite, any of them
\* selected, so that a selection of three leaves a sprite unselected.
DistIds == 1 .. NumDistSprites

FullPlacements ==
  {[i \in DistIds |->
      [sprite |-> SpriteData(i), x |-> at[i].x, y |-> at[i].y, zIndex |-> i]] :
     at \in [DistIds -> LayoutPoints]}

InitDistribute ==
  /\ canvasSprites \in FullPlacements
  /\ selectedIds \in SUBSET DistIds
  /\ maxZIndex = Len(canvasSprites)
  /\ scale = UnitScale
  /\ offsetX = 0
  /\ offsetY = 0
  /\ activeGuides = <<>>
  /\ snapEnabled = TRUE
  /\ isDragging = FALSE
  /\ isSelecting = FALSE
  /\ selectionStart = Null
  /\ selectionEnd = Null
  /\ panState = Null
  /\ dragState = Null
  /\ lastOp = [op |-> "placed"]
  /\ btfEpoch = {}
  /\ btfEver = {}
  /\ dupBatchSeen = FALSE
  /\ opCount = 0
  /\ OtherViewsIdle

NextDistribute ==
  \E direction \in Directions : DistributeSelected(direction) /\ CountedLayoutOp

SpecDistribute == InitDistribute /\ [][NextDistribute]_vars


\* ---------------------------------------------------------------- SpecStore
\* The operations of the placement store that take ids or work on the
\* selection, called with ids that are on the canvas and with ids that are not.
NextStore ==
  \/ \E sprites \in Batches : AddSprites(sprites) /\ UNCHANGED <<history, otherViews>>
  \/ \E ids \in IdLists : RemoveSprites(ids) /\ UNCHANGED <<history, otherViews>>
  \/ \E updates \in ZUpdates : UpdateSpritesPosition(updates) /\ UNCHANGED <<history, otherViews>>
  \/ SelectAll /\ UNCHANGED <<history, otherViews>>
  \/ DeselectAll /\ UNCHANGED <<history, otherViews>>
  \/ \E id \in Ids : BringToFront(id) /\ UNCHANGED <<history, otherViews>>
  \/ \E id \in Ids : SendToBack(id) /\ UNCHANGED <<history, otherViews>>
  \/ \E alignment \in {"left", "bottom"} : AlignSelected(alignment) /\ UNCHANGED <<history, otherViews>>
  \/ \E direction \in Directions : DistributeSelected(direction) /\ UNCHANGED <<history, otherViews>>
  \/ AutoArrange /\ UNCHANGED <<history, otherViews>>

SpecStore == Init /\ [][NextStore]_vars


\* ---------------------------------------------------------------- SpecStair
\* addSprites on canvases whose sprites have been dragged near the wrap width.
StairIds == 1 .. NumStairSprites
StairUpdates ==
  {<<[id |-> id, x |-> x, y |-> StartY]>> : id \in StairIds, x \in {1790, 1900}}

NextStair ==
  \/ \E sprites \in BatchesOf(StairIds, MaxBatch) : AddSprites(sprites) /\ UNCHANGED <<history, otherViews>>
  \/ \E ids \in SUBSET StairIds \ {{}} : RemoveSprites(ids) /\ UNCHANGED <<history, otherViews>>
  \/ \E updates \in StairUpdates : UpdateSpritesPosition(updates) /\ UNCHANGED <<history, otherViews>>

SpecStair == Init /\ [][NextStair]_vars


\* ----------------------------------------------------------------- SpecWide
\* addSprites and removeSprites with sprites as wide as the wrap width, so that
\* the staircase wraps inside a batch; every sprite stays where addSprites put it.
WideIds == 1 .. NumWideSprites
WideSprite(id) ==
  [id |-> id, width |-> 2000, height |-> IF id % 2 = 1 THEN 300 ELSE 100]
WideBatches ==
  {[i \in DOMAIN s |-> WideSprite(s[i])] : s \in DistinctSeqsUpTo(WideIds, MaxBatch) \ {<<>>}}

NextWide ==
  \/ \E sprites \in WideBatches : AddSprites(sprites) /\ UNCHANGED <<history, otherViews>>
  \/ \E ids \in SUBSET WideIds \ {{}} : RemoveSprites(ids) /\ UNCHANGED <<history, otherViews>>

SpecWide == Init /\ [][NextWide]_vars


\* ----------------------------------------------------------------- SpecSnap
\* calculateSnap called with positions and sizes of a moving sprite against
\* canvases of zero or more candidates of differing sizes.
SnapIds == 1 .. (NumSnapOthers + 1)
SnapSprite(id) ==
  [id |-> id,
   width  |-> IF id % 3 = 1 THEN 100 ELSE IF id % 3 = 2 THEN 110 ELSE 101,
   height |-> IF id % 3 = 1 THEN 100 ELSE IF id % 3 = 2 THEN 60 ELSE 50]
SnapPoints == {[x |-> 20, y |-> 20], [x |-> 130, y |-> 20], [x |-> 20, y |-> 200]}
SnapCanvases ==
  {[i \in DOMAIN ids |->
      [sprite |-> SnapSprite(ids[i]), x |-> at[i].x, y |-> at[i].y, zIndex |-> i]] :
     ids \in DistinctSeqsUpTo(SnapIds, NumSnapOthers), at \in [1 .. NumSnapOthers -> SnapPoints]}
\* Positions of the moving sprite, in half pixels.
SnapPositions == {[x |-> x, y |-> y] : x \in {40, 49, 248, 600}, y \in {40, 54, 800}}
SnapSizes == {[width |-> SnapSprite(id).width, height |-> SnapSprite(id).height] : id \in 1 .. 3}

InitSnap ==
  /\ canvasSprites \in SnapCanvases
  /\ selectedIds = {}
  /\ maxZIndex = Len(canvasSprites)
  /\ scale = UnitScale
  /\ offsetX = 0
  /\ offsetY = 0
  /\ activeGuides = <<>>
  /\ snapEnabled = TRUE
  /\ isDragging = FALSE
  /\ isSelecting = FALSE
  /\ selectionStart = Null
  /\ selectionEnd = Null
  /\ panState = Null
  /\ dragState = Null
  /\ lastOp = [op |-> "placed"]
  /\ btfEpoch = {}
  /\ btfEver = {}
  /\ dupBatchSeen = FALSE
  /\ opCount = 0
  /\ OtherViewsIdle

CalculateSnapCall(position, spriteSize) ==
  /\ lastOp' = [op |-> "calculateSnap", position |-> position, spriteSize |-> spriteSize,
                otherSprites |-> canvasSprites,
                result |-> CalculateSnap(position, spriteSize, canvasSprites, SnapThreshold)]
  /\ UNCHANGED <<spriteVars, viewVars, sessionVars>>

NextSnap ==
  \E position \in SnapPositions, spriteSize \in SnapSizes :
     CalculateSnapCall(position, spriteSize) /\ UNCHANGED <<history, otherViews>>

SpecSnap == InitSnap /\ [][NextSnap]_vars


\* --------------------------------------------------------------- SpecArrange
\* autoArrange on canvases of sprites of sizes 200x50, 100x100 and 50x50,
\* added in any order and moved about.
ArrangeIds == 1 .. NumArrangeSprites
ArrangeSprite(id) ==
  [id |-> id,
   width  |-> IF id % 3 = 1 THEN 200 ELSE IF id % 3 = 2 THEN 100 ELSE 50,
   height |-> IF id % 3 = 1 THEN 50 ELSE IF id % 3 = 2 THEN 100 ELSE 50]
ArrangeBatches ==
  {[i \in DOMAIN s |-> ArrangeSprite(s[i])] : s \in DistinctSeqsUpTo(ArrangeIds, MaxBatch) \ {<<>>}}
ArrangeUpdates ==
  {<<[id |-> id, x |-> 400, y |-> 300]>> : id \in ArrangeIds}

NextArrange ==
  \/ \E sprites \in ArrangeBatches : AddSprites(sprites) /\ UNCHANGED <<history, otherViews>>
  \/ \E ids \in SUBSET ArrangeIds \ {{}} : RemoveSprites(ids) /\ UNCHANGED <<history, otherViews>>
  \/ \E updates \in ArrangeUpdates : UpdateSpritesPosition(updates) /\ UNCHANGED <<history, otherViews>>
  \/ AutoArrange /\ UNCHANGED <<history, otherViews>>

SpecArrange == Init /\ [][NextArrange]_vars


\* --------------------------------------------------------- pointer handlers
\* The handlers of the canvas component. clientX and clientY are taken relative
\* to the container's bounding rectangle.
ToggleSnap ==
  /\ snapEnabled' = ~snapEnabled
  /\ lastOp' = [op |-> "toggleSnap"]
  /\ UNCHANGED <<spriteVars, viewVars, activeGuides, isDragging, isSelecting,
                 selectionStart, selectionEnd, panState, dragState>>

\* (client - rect.left - offset) / scale, and (client - start) / scale.
ToWorld(client, offset) == ((client - offset) * UnitScale) \div scale
WorldExact(client, offset) == ((client - offset) * UnitScale) % scale = 0

\* The sprite element under a world point: sprites are rendered in ascending
\* zIndex (a stable sort), so the last of the highest zIndex is on top.
SpritesAt(wx, wy) ==
  {i \in DOMAIN canvasSprites :
     /\ canvasSprites[i].x <= wx /\ wx < RightOf(canvasSprites[i])
     /\ canvasSprites[i].y <= wy /\ wy < BottomOf(canvasSprites[i])}
TopSpriteAt(wx, wy) ==
  LET at == SpritesAt(wx, wy)
      z  == SetMax({canvasSprites[i].zIndex : i \in at})
  IN canvasSprites[SetMax({i \in at : canvasSprites[i].zIndex = z})]

\* The pointer is over a sprite element (and at a whole world point).
OverSprite(clientX, clientY) ==
  /\ WorldExact(clientX, offsetX) /\ WorldExact(clientY, offsetY)
  /\ SpritesAt(ToWorld(clientX, offsetX), ToWorld(clientY, offsetY)) # {}

Panning   == panState # Null /\ panState.isPanning
Marqueeing == isSelecting /\ selectionStart # Null
Dragging  == dragState # Null /\ dragState.isDragging


\* What handleMouseDown makes of the button and the Alt key of a press:
\* e.button === 1 || (e.button === 0 && e.altKey), else e.button === 0.
PressKind(button, altKey) ==
  IF button = 1 \/ (button = 0 /\ altKey) THEN "pan"
  ELSE IF button = 0 THEN "left" ELSE "other"

\* handleMouseDown: a press that reaches the container, i.e. not over a sprite
\* (handleSpriteMouseDown stops the propagation of those). onCanvas is
\* e.target === canvasRef.current.
HandleMouseDown(button, altKey, shiftKey, onCanvas, clientX, clientY) ==
  /\ ~OverSprite(clientX, clientY)
  /\ lastOp' = [op |-> "mouseDown", press |-> PressKind(button, altKey),
                onCanvas |-> onCanvas, shiftKey |-> shiftKey,
                clientX |-> clientX, clientY |-> clientY,
                panning |-> Panning, selecting |-> isSelecting, dragging |-> Dragging]
  /\ IF PressKind(button, altKey) = "pan"
       THEN /\ panState' = [isPanning |-> TRUE, startX |-> clientX, startY |-> clientY,
                            startOffsetX |-> offsetX, startOffsetY |-> offsetY]
            /\ UNCHANGED <<spriteVars, viewVars, activeGuides, snapEnabled, isDragging,
                           isSelecting, selectionStart, selectionEnd, dragState>>
       ELSE IF PressKind(button, altKey) = "left" /\ onCanvas
         THEN LET start == [x |-> ToWorld(clientX, offsetX), y |-> ToWorld(clientY, offsetY)]
              IN /\ isSelecting' = TRUE
                 /\ selectionStart' = start
                 /\ selectionEnd' = start
                 /\ selectedIds' = IF shiftKey THEN selectedIds ELSE {}
                 /\ UNCHANGED <<canvasSprites, maxZIndex, viewVars, activeGuides, snapEnabled,
                                isDragging, panState, dragState>>
         ELSE UNCHANGED <<spriteVars, viewVars, sessionVars>>

\* The entries of spriteStartPositions, in insertion order.
StartPositions(ids) ==
  LET idx == {i \in DOMAIN canvasSprites : canvasSprites[i].sprite.id \in ids}
  IN [k \in 1 .. Cardinality(idx) |->
        LET cs == canvasSprites[SetToSeq(idx)[k]]
        IN [id |-> cs.sprite.id, x |-> cs.x, y |-> cs.y]]

\* handleSpriteMouseDown: a press of any button over the sprite element on top.
HandleSpriteMouseDown(button, altKey, shiftKey, ctrlKey, clientX, clientY) ==
  /\ OverSprite(clientX, clientY)
  /\ maxZIndex < MaxZ
  /\ \E sprite \in {TopSpriteAt(ToWorld(clientX, offsetX), ToWorld(clientY, offsetY))} :
     LET id            == sprite.sprite.id
         isSelected    == id \in selectedIds
         isMultiSelect == shiftKey \/ ctrlKey
         deselected    == IF ~isSelected /\ ~isMultiSelect THEN {} ELSE selectedIds
     IN /\ selectedIds' = SelectSpriteResult(deselected, id, isMultiSelect \/ isSelected)
        /\ canvasSprites' = SetZIndex(canvasSprites, id, BringToFrontZ(maxZIndex))
        /\ maxZIndex' = BringToFrontZ(maxZIndex)
        /\ dragState' = [isDragging |-> TRUE, startX |-> clientX, startY |-> clientY,
                         spriteStartPositions |->
                           IF isSelected \/ isMultiSelect
                             THEN StartPositions(selectedIds \cup {id})
                             ELSE <<[id |-> id, x |-> sprite.x, y |-> sprite.y]>>]
        /\ isDragging' = TRUE
        /\ lastOp' = [op |-> "spriteMouseDown", id |-> id, multi |-> isMultiSelect,
                      press |-> PressKind(button, altKey),
                      panning |-> Panning, selecting |-> isSelecting, dragging |-> Dragging]
  /\ UNCHANGED <<viewVars, activeGuides, snapEnabled, isSelecting, selectionStart,
                 selectionEnd, panState>>

\* The drag branch of handleMouseMove, from entry k of spriteStartPositions on.
\* acc.updates and acc.guides are in half pixels; acc.published tells whether
\* setActiveGuides was called.
RECURSIVE DragFrom(_, _, _, _, _, _)
DragFrom(entries, k, acc, dx, dy, otherSprites) ==
  IF k > Len(entries) THEN acc
  ELSE
    LET id    == entries[k].id
        newX  == 2 * (entries[k].x + dx)
        newY  == 2 * (entries[k].y + dy)
        found == {i \in DOMAIN canvasSprites : canvasSprites[i].sprite.id = id}
        snaps == snapEnabled /\ acc.updates = <<>> /\ found # {}
        sprite == canvasSprites[SetMin(found)]
        snapResult == CalculateSnap([x |-> newX, y |-> newY],
                                    [width |-> sprite.sprite.width,
                                     height |-> sprite.sprite.height],
                                    otherSprites, SnapThreshold)
        snapDx == snapResult.x - newX
        snapDy == snapResult.y - newY
        followers == SetToSeq({j \in DOMAIN entries : entries[j].id # id})
        followed  == [j \in DOMAIN followers |->
                        [id |-> entries[followers[j]].id,
                         x |-> 2 * (entries[followers[j]].x + dx) + snapDx,
                         y |-> 2 * (entries[followers[j]].y + dy) + snapDy]]
    IN DragFrom(entries, k + 1,
                IF snaps
                  THEN [updates |-> Append(followed, [id |-> id, x |-> snapResult.x,
                                                      y |-> snapResult.y]),
                        guides |-> snapResult.guides, published |-> TRUE]
                  ELSE [acc EXCEPT !.updates = Append(@, [id |-> id, x |-> newX, y |-> newY])],
                dx, dy, otherSprites)

AllWhole(coords) == \A i \in DOMAIN coords : coords[i] % 2 = 0

\* Mutant: the pointer delta is divided by the scale.
PanOffsetScaled(startOffset, start, client) ==
  startOffset + ((client - start) * UnitScale) \div scale

\* panState.startOffsetX + (e.clientX - panState.startX), and the same for y.
PanOffset(startOffset, start, client) == startOffset + (client - start)

\* handleMouseMove: the pan branch, else the marquee branch, else the drag branch.
HandleMouseMove(clientX, clientY) ==
  IF Panning
    THEN /\ Abs(PanOffset(panState.startOffsetX, panState.startX, clientX)) <= MaxOffset
         /\ Abs(PanOffset(panState.startOffsetY, panState.startY, clientY)) <= MaxOffset
         /\ offsetX' = PanOffset(panState.startOffsetX, panState.startX, clientX)
         /\ offsetY' = PanOffset(panState.startOffsetY, panState.startY, clientY)
         /\ lastOp' = [op |-> "mouseMove", branch |-> "pan", clientX |-> clientX,
                       clientY |-> clientY]
         /\ UNCHANGED <<spriteVars, scale, sessionVars>>
  ELSE IF Marqueeing
    THEN /\ WorldExact(clientX, offsetX) /\ WorldExact(clientY, offsetY)
         /\ selectionEnd' = [x |-> ToWorld(clientX, offsetX), y |-> ToWorld(clientY, offsetY)]
         /\ lastOp' = [op |-> "mouseMove", branch |-> "marquee", clientX |-> clientX,
                       clientY |-> clientY]
         /\ UNCHANGED <<spriteVars, viewVars, activeGuides, snapEnabled, isDragging,
                        isSelecting, selectionStart, panState, dragState>>
  ELSE IF Dragging
    THEN /\ WorldExact(clientX, dragState.startX) /\ WorldExact(clientY, dragState.startY)
         /\ LET dx == ToWorld(clientX, dragState.startX)
                dy == ToWorld(clientY, dragState.startY)
                others == SetToSeq({i \in DOMAIN canvasSprites :
                                      canvasSprites[i].sprite.id \notin selectedIds})
                otherSprites == [k \in DOMAIN others |-> canvasSprites[others[k]]]
            IN \E r \in {DragFrom(dragState.spriteStartPositions, 1,
                                  [updates |-> <<>>, guides |-> <<>>, published |-> FALSE],
                                  dx, dy, otherSprites)} :
               /\ AllWhole([i \in DOMAIN r.updates |-> r.updates[i].x])
               /\ AllWhole([i \in DOMAIN r.updates |-> r.updates[i].y])
               /\ AllWhole([i \in DOMAIN r.guides |-> r.guides[i].position])
               /\ canvasSprites' =
                    ApplyUpdates(canvasSprites,
                                 [i \in DOMAIN r.updates |->
                                    [id |-> r.updates[i].id, x |-> r.updates[i].x \div 2,
                                     y |-> r.updates[i].y \div 2]])
               /\ activeGuides' =
                    IF r.published
                      THEN [i \in DOMAIN r.guides |->
                              [r.guides[i] EXCEPT !.position = @ \div 2]]
                      ELSE activeGuides
               /\ lastOp' = [op |-> "mouseMove", branch |-> "drag", dx |-> dx, dy |-> dy,
                             clientX |-> clientX, clientY |-> clientY,
                             snapped |-> r.published,
                             candidates |-> CanvasIds(otherSprites)]
         /\ UNCHANGED <<selectedIds, maxZIndex, viewVars, snapEnabled, isDragging,
                        isSelecting, selectionStart, selectionEnd, panState, dragState>>
  ELSE /\ lastOp' = [op |-> "mouseMove", branch |-> "idle"]
       /\ UNCHANGED <<spriteVars, viewVars, sessionVars>>


\* Mutant: a marquee that has not moved from its start is not ended.
MarqueeOpenMoved == isSelecting /\ selectionStart # Null /\ selectionEnd # selectionStart

\* The marquee that handleMouseUp completes.
MarqueeOpen == isSelecting /\ selectionStart # Null /\ selectionEnd # Null

\* handleMouseUp, attached to the container as onMouseUp and as onMouseLeave.
HandleMouseUp(event) ==
  /\ panState' = IF Panning THEN Null ELSE panState
  /\ IF MarqueeOpen
       THEN LET x      == MathMin(selectionStart.x, selectionEnd.x)
                y      == MathMin(selectionStart.y, selectionEnd.y)
                width  == Abs(selectionEnd.x - selectionStart.x)
                height == Abs(selectionEnd.y - selectionStart.y)
            IN /\ selectedIds' =
                    IF width > MarqueeMin /\ height > MarqueeMin
                      THEN SpritesInRect(canvasSprites,
                                         [x |-> x, y |-> y, width |-> width, height |-> height])
                      ELSE selectedIds
               /\ isSelecting' = FALSE
               /\ selectionStart' = Null
               /\ selectionEnd' = Null
       ELSE UNCHANGED <<selectedIds, isSelecting, selectionStart, selectionEnd>>
  /\ IF Dragging
       THEN dragState' = Null /\ isDragging' = FALSE /\ activeGuides' = <<>>
       ELSE UNCHANGED <<dragState, isDragging, activeGuides>>
  /\ lastOp' = [op |-> event, panning |-> Panning, selecting |-> isSelecting,
                dragging |-> Dragging, guides |-> activeGuides]
  /\ UNCHANGED <<canvasSprites, maxZIndex, viewVars, snapEnabled>>


\* -------------------------------------------------------------- SpecPointer
\* Pointer events on a canvas of 100x100 sprites: presses of every button with
\* every modifier over sprites and over empty canvas, moves, releases, leaves.
PointerIds == {3 * k - 2 : k \in 1 .. NumPointerSprites}
Buttons == {0, 1, 2}
PointerPoints ==
  {[x |-> 150, y |-> 50], [x |-> 143, y |-> 50], [x |-> 300, y |-> 300]}

CountedPress ==
  /\ opCount < MaxPresses
  /\ opCount' = opCount + 1
  /\ UNCHANGED <<zHistory, dupBatchSeen, otherViews>>

\* The canvas after addSprites of the pointer sprites, in ascending id order.
InitPointer ==
  /\ canvasSprites = AddSpritesResult(<<>>, [k \in 1 .. NumPointerSprites |-> SpriteData(3 * k - 2)], 0)
  /\ selectedIds = {}
  /\ maxZIndex = NumPointerSprites
  /\ scale = UnitScale
  /\ offsetX = 0
  /\ offsetY = 0
  /\ activeGuides = <<>>
  /\ snapEnabled = TRUE
  /\ isDragging = FALSE
  /\ isSelecting = FALSE
  /\ selectionStart = Null
  /\ selectionEnd = Null
  /\ panState = Null
  /\ dragState = Null
  /\ lastOp = [op |-> "placed"]
  /\ btfEpoch = {}
  /\ btfEver = {}
  /\ dupBatchSeen = FALSE
  /\ opCount = 0
  /\ OtherViewsIdle

NextPointer ==
  \/ ToggleSnap /\ UNCHANGED <<history, otherViews>>
  \/ \E p \in PointerPoints :
        /\ opCount < MaxPresses /\ ~OverSprite(p.x, p.y)
        /\ \E button \in Buttons, altKey, shiftKey, onCanvas \in BOOLEAN :
              HandleMouseDown(button, altKey, shiftKey, onCanvas, p.x, p.y) /\ CountedPress
  \/ \E p \in PointerPoints :
        /\ opCount < MaxPresses /\ OverSprite(p.x, p.y)
        /\ \E button \in Buttons, altKey, shiftKey, ctrlKey \in BOOLEAN :
              HandleSpriteMouseDown(button, altKey, shiftKey, ctrlKey, p.x, p.y) /\ CountedPress
  \/ \E p \in PointerPoints : HandleMouseMove(p.x, p.y) /\ UNCHANGED <<history, otherViews>>
  \/ \E event \in {"mouseUp", "mouseLeave"} : HandleMouseUp(event) /\ UNCHANGED <<history, otherViews>>

SpecPointer == InitPointer /\ [][NextPointer]_vars


\* ----------------------------------------------------------------- SpecDrag
\* Dragging on a canvas of 100x100 sprites added by addSprites: presses over
\* sprites, moves to points that bring the pressed sprite near the other one
\* or not, releases, with snapping switched on and off.
DragPoints ==
  {[x |-> 150, y |-> 50], [x |-> 136, y |-> 50], [x |-> 143, y |-> 50],
   [x |-> 145, y |-> 120], [x |-> 170, y |-> 50]}

\* The pointer sprites in one batch, in any order.
DragBatches ==
  {sprites \in BatchesOf(PointerIds, NumPointerSprites) : Len(sprites) = NumPointerSprites}

CountedDrag ==
  /\ opCount < MaxDrags
  /\ opCount' = opCount + 1
  /\ UNCHANGED <<zHistory, dupBatchSeen, otherViews>>

NextDrag ==
  \/ \E sprites \in DragBatches : AddSprites(sprites) /\ UNCHANGED <<history, otherViews>>
  \/ ToggleSnap /\ UNCHANGED <<history, otherViews>>
  \/ \E p \in DragPoints :
        /\ opCount < MaxDrags /\ OverSprite(p.x, p.y)
        /\ \E shiftKey \in BOOLEAN :
              HandleSpriteMouseDown(0, FALSE, shiftKey, FALSE, p.x, p.y) /\ CountedDrag
  \/ \E p \in DragPoints : HandleMouseMove(p.x, p.y) /\ UNCHANGED <<history, otherViews>>
  \/ HandleMouseUp("mouseUp") /\ UNCHANGED <<history, otherViews>>

SpecDrag == Init /\ [][NextDrag]_vars


\* ---------------------------------------------------------- keyboard handler
ArrowKeys == {"ArrowUp", "ArrowDown", "ArrowLeft", "ArrowRight"}
Keys == {"Delete", "a", "Escape"} \cup ArrowKeys

\* The switch on e.key: the change of x and of y for one arrow key.
NudgeDx(key, step) ==
  IF key = "ArrowLeft" THEN -step ELSE IF key = "ArrowRight" THEN step ELSE 0

\* Mutant: ArrowUp moves down the canvas.
NudgeDyDown(key, step) ==
  IF key = "ArrowUp" THEN step ELSE IF key = "ArrowDown" THEN step ELSE 0

NudgeDy(key, step) ==
  IF key = "ArrowUp" THEN -step ELSE IF key = "ArrowDown" THEN step ELSE 0

\* The updates pushed for the selected sprites, in canvas order.
NudgeUpdates(sprites, selected, key, shiftKey) ==
  LET step == IF shiftKey THEN ShiftNudgeStep ELSE NudgeStep
      sel  == SetToSeq({i \in DOMAIN sprites : sprites[i].sprite.id \in selected})
  IN [k \in DOMAIN sel |->
        [id |-> sprites[sel[k]].sprite.id,
         x |-> sprites[sel[k]].x + NudgeDx(key, step),
         y |-> sprites[sel[k]].y + NudgeDy(key, step)]]

NudgeResult(sprites, selected, key, shiftKey) ==
  ApplyUpdates(sprites, NudgeUpdates(sprites, selected, key, shiftKey))


\* Mutant: removeSprites empties the canvas.
RemoveSpritesAll(sprites, ids) == <<>>

\* state.canvasSprites.filter((cs) => !idSet.has(cs.sprite.id))
RemoveSpritesResult(sprites, ids) ==
  SelectSeq(sprites, LAMBDA cs : cs.sprite.id \notin ids)

\* handleKeyDown on window: Delete, Ctrl/Cmd+A, Escape and the arrow keys; the
\* tests follow each other, and each reads the selection of the last render.
\* ctrlKey stands for e.ctrlKey || e.metaKey.
HandleKeyDown(key, shiftKey, ctrlKey) ==
  LET deleted  == key = "Delete" /\ selectedIds # {}
      all      == ctrlKey /\ key = "a"
      nudged   == selectedIds # {} /\ key \in ArrowKeys
      afterDel == IF deleted
                    THEN RemoveSpritesResult(canvasSprites, selectedIds)
                    ELSE canvasSprites
  IN /\ canvasSprites' = IF nudged
                           THEN NudgeResult(afterDel, selectedIds, key, shiftKey)
                           ELSE afterDel
     /\ selectedIds' = IF key = "Escape" THEN {}
                       ELSE IF all THEN CanvasIds(afterDel)
                       ELSE IF deleted THEN {}
                       ELSE selectedIds
     /\ lastOp' = [op |-> "keyDown", key |-> key, shiftKey |-> shiftKey, ctrlKey |-> ctrlKey]
     /\ UNCHANGED <<maxZIndex, viewVars, sessionVars>>


\* ---------------------------------------------------------------- SpecMulti
\* Drags on a canvas of 100x100 sprites with any of them selected beforehand:
\* presses with and without Shift/Ctrl on selected and unselected sprites,
\* moves, releases, the Delete key, snapping switched on and off.
MultiIds == {3 * k - 2 : k \in 1 .. NumMultiSprites}
MultiPoints ==
  {[x |-> 50, y |-> 50], [x |-> 150, y |-> 50], [x |-> 250, y |-> 50],
   [x |-> 143, y |-> 50], [x |-> 180, y |-> 90]}

InitMulti ==
  /\ canvasSprites = AddSpritesResult(<<>>, [k \in 1 .. NumMultiSprites |-> SpriteData(3 * k - 2)], 0)
  /\ selectedIds \in SUBSET MultiIds
  /\ maxZIndex = NumMultiSprites
  /\ scale = UnitScale
  /\ offsetX = 0
  /\ offsetY = 0
  /\ activeGuides = <<>>
  /\ snapEnabled = TRUE
  /\ isDragging = FALSE
  /\ isSelecting = FALSE
  /\ selectionStart = Null
  /\ selectionEnd = Null
  /\ panState = Null
  /\ dragState = Null
  /\ lastOp = [op |-> "placed"]
  /\ btfEpoch = {}
  /\ btfEver = {}
  /\ dupBatchSeen = FALSE
  /\ opCount = 0
  /\ OtherViewsIdle

NextMulti ==
  \/ ToggleSnap /\ UNCHANGED <<history, otherViews>>
  \/ \E p \in MultiPoints :
        /\ opCount < MaxDrags /\ OverSprite(p.x, p.y)
        /\ \E shiftKey, ctrlKey \in BOOLEAN :
              HandleSpriteMouseDown(0, FALSE, shiftKey, ctrlKey, p.x, p.y) /\ CountedDrag
  \/ \E p \in MultiPoints : HandleMouseMove(p.x, p.y) /\ UNCHANGED <<history, otherViews>>
  \/ HandleMouseUp("mouseUp") /\ UNCHANGED <<history, otherViews>>
  \/ HandleKeyDown("Delete", FALSE, FALSE) /\ UNCHANGED <<history, otherViews>>

SpecMulti == InitMulti /\ [][NextMulti]_vars


\* ----------------------------------------------------------------- SpecKeys
\* Key presses on a canvas of 100x100 sprites laid out by addSprites, with any
\* of them selected: every key of the handler, with and without Shift and
\* Ctrl/Cmd, snapping switched on and off.
CountedKey ==
  /\ opCount < MaxKeys
  /\ opCount' = opCount + 1
  /\ UNCHANGED <<zHistory, dupBatchSeen, otherViews>>

NextKeys ==
  \/ ToggleSnap /\ UNCHANGED <<history, otherViews>>
  \/ /\ opCount < MaxKeys
     /\ \E key \in Keys, shiftKey, ctrlKey \in BOOLEAN :
           HandleKeyDown(key, shiftKey, ctrlKey) /\ CountedKey

SpecKeys == InitMulti /\ [][NextKeys]_vars


\* -------------------------------------------------------------- SpecMarquee
\* Presses on empty canvas, moves and releases on a canvas of three 100x100
\* sprites, at scale 1 and at scale 2, with any of the sprites selected
\* beforehand. A press happens where the pointer was last seen.
MarqueePoints ==
  {[x |-> 250, y |-> 260], [x |-> 260, y |-> 270], [x |-> 300, y |-> 100],
   [x |-> 254, y |-> 240]}

PointerAt(p) ==
  "clientX" \in DOMAIN lastOp => lastOp.clientX = p.x /\ lastOp.clientY = p.y

InitMarquee ==
  /\ canvasSprites = AddSpritesResult(<<>>, [k \in 1 .. NumMultiSprites |-> SpriteData(3 * k - 2)], 0)
  /\ selectedIds \in SUBSET MultiIds
  /\ maxZIndex = NumMultiSprites
  /\ scale \in {UnitScale, 2 * UnitScale}
  /\ offsetX = 0
  /\ offsetY = 0
  /\ activeGuides = <<>>
  /\ snapEnabled = TRUE
  /\ isDragging = FALSE
  /\ isSelecting = FALSE
  /\ selectionStart = Null
  /\ selectionEnd = Null
  /\ panState = Null
  /\ dragState = Null
  /\ lastOp = [op |-> "placed"]
  /\ btfEpoch = {}
  /\ btfEver = {}
  /\ dupBatchSeen = FALSE
  /\ opCount = 0
  /\ OtherViewsIdle

NextMarquee ==
  \/ \E p \in MarqueePoints :
        /\ opCount < MaxPresses /\ ~OverSprite(p.x, p.y) /\ PointerAt(p)
        /\ \E button \in Buttons, altKey, shiftKey, onCanvas \in BOOLEAN :
              HandleMouseDown(button, altKey, shiftKey, onCanvas, p.x, p.y) /\ CountedPress
  \/ \E p \in MarqueePoints : HandleMouseMove(p.x, p.y) /\ UNCHANGED <<history, otherViews>>
  \/ \E event \in {"mouseUp", "mouseLeave"} : HandleMouseUp(event) /\ UNCHANGED <<history, otherViews>>

SpecMarquee == InitMarquee /\ [][NextMarquee]_vars


\* ------------------------------------------------------------------ SpecPan
\* Panning on a canvas of three 100x100 sprites, the first of them selected:
\* presses of every button with every modifier on empty canvas, moves,
\* releases, and between them the scale set to 1 or 2 and the view reset.
PanPoints ==
  {[x |-> 250, y |-> 260], [x |-> 260, y |-> 270], [x |-> 254, y |-> 240]}

InitPan ==
  /\ canvasSprites = AddSpritesResult(<<>>, [k \in 1 .. NumMultiSprites |-> SpriteData(3 * k - 2)], 0)
  /\ selectedIds = {1}
  /\ maxZIndex = NumMultiSprites
  /\ scale = UnitScale
  /\ offsetX = 0
  /\ offsetY = 0
  /\ activeGuides = <<>>
  /\ snapEnabled = TRUE
  /\ isDragging = FALSE
  /\ isSelecting = FALSE
  /\ selectionStart = Null
  /\ selectionEnd = Null
  /\ panState = Null
  /\ dragState = Null
  /\ lastOp = [op |-> "placed"]
  /\ btfEpoch = {}
  /\ btfEver = {}
  /\ dupBatchSeen = FALSE
  /\ opCount = 0
  /\ OtherViewsIdle

NextPan ==
  \/ \E p \in PanPoints :
        /\ opCount < MaxPresses /\ ~OverSprite(p.x, p.y)
        /\ \E button \in Buttons, altKey, shiftKey, onCanvas \in BOOLEAN :
              HandleMouseDown(button, altKey, shiftKey, onCanvas, p.x, p.y) /\ CountedPress
  \/ \E p \in PanPoints : HandleMouseMove(p.x, p.y) /\ UNCHANGED <<history, otherViews>>
  \/ HandleMouseUp("mouseUp") /\ UNCHANGED <<history, otherViews>>
  \/ \E v \in {UnitScale, 2 * UnitScale} : SetScale(v, "store") /\ UNCHANGED <<history, otherViews>>
  \/ ResetView /\ UNCHANGED <<history, otherViews>>

SpecPan == InitPan /\ [][NextPan]_vars


\* ----------------------------------------------------------------- SpecTidy
\* autoArrange among the operations it must leave alone: sprites of the sizes
\* of SpecArrange, added smallest first, are moved, selected and sent to the
\* back.
InitTidy ==
  /\ canvasSprites =
        AddSpritesResult(<<>>, [k \in 1 .. NumArrangeSprites |->
                                  ArrangeSprite(NumArrangeSprites + 1 - k)], 0)
  /\ selectedIds = {}
  /\ maxZIndex = NumArrangeSprites
  /\ scale = UnitScale
  /\ offsetX = 0
  /\ offsetY = 0
  /\ activeGuides = <<>>
  /\ snapEnabled = TRUE
  /\ isDragging = FALSE
  /\ isSelecting = FALSE
  /\ selectionStart = Null
  /\ selectionEnd = Null
  /\ panState = Null
  /\ dragState = Null
  /\ lastOp = [op |-> "placed"]
  /\ btfEpoch = {}
  /\ btfEver = {}
  /\ dupBatchSeen = FALSE
  /\ opCount = 0
  /\ OtherViewsIdle

NextTidy ==
  \/ \E updates \in ArrangeUpdates : UpdateSpritesPosition(updates) /\ UNCHANGED <<history, otherViews>>
  \/ SelectAll /\ UNCHANGED <<history, otherViews>>
  \/ \E id \in ArrangeIds : SendToBack(id) /\ UNCHANGED <<history, otherViews>>
  \/ AutoArrange /\ UNCHANGED <<history, otherViews>>

SpecTidy == InitTidy /\ [][NextTidy]_vars


\* ---------------------------------------------------------------- SpecClear
\* clearCanvas on the canvas of SpecPan, idle and in the middle of a drag that
\* shows guides, at scale 1 and 2, with snapping on and off; addSprites fills
\* the emptied canvas.
ClearPoints == {[x |-> 150, y |-> 50], [x |-> 143, y |-> 50]}
\* The import delivers all the sprites, first to last or last to first.
ClearBatches ==
  {[k \in 1 .. NumMultiSprites |-> SpriteData(3 * k - 2)],
   [k \in 1 .. NumMultiSprites |-> SpriteData(3 * (NumMultiSprites + 1 - k) - 2)]}

NextClear ==
  \/ ToggleSnap /\ UNCHANGED <<history, otherViews>>
  \/ \E v \in {UnitScale, 2 * UnitScale} : SetScale(v, "store") /\ UNCHANGED <<history, otherViews>>
  \/ \E p \in ClearPoints :
        /\ opCount < MaxDrags /\ OverSprite(p.x, p.y)
        /\ \E shiftKey \in BOOLEAN :
              HandleSpriteMouseDown(0, FALSE, shiftKey, FALSE, p.x, p.y) /\ CountedDrag
  \/ \E p \in ClearPoints : HandleMouseMove(p.x, p.y) /\ UNCHANGED <<history, otherViews>>
  \/ HandleMouseUp("mouseUp") /\ UNCHANGED <<history, otherViews>>
  \/ ClearCanvas /\ UNCHANGED <<history, otherViews>>
  \/ /\ canvasSprites = <<>>
     /\ \E sprites \in ClearBatches : AddSprites(sprites) /\ UNCHANGED <<history, otherViews>>

SpecClear == InitPan /\ [][NextClear]_vars


\* ----------------------------------------------------------------- SpecRows
\* autoArrange on canvases of sprites wide enough to fill and overflow a row:
\* 600x200, 800x100, 700x50 and 2000x10, added and removed in any order.
RowIds == 1 .. NumRowSprites
RowSprite(id) ==
  [id |-> id,
   width  |-> IF id % 4 = 1 THEN 600 ELSE IF id % 4 = 2 THEN 800
              ELSE IF id % 4 = 3 THEN 700 ELSE 2000,
   height |-> IF id % 4 = 1 THEN 200 ELSE IF id % 4 = 2 THEN 100
              ELSE IF id % 4 = 3 THEN 50 ELSE 10]
RowBatches ==
  {[i \in DOMAIN s |-> RowSprite(s[i])] : s \in DistinctSeqsUpTo(RowIds, MaxBatch) \ {<<>>}}

NextRows ==
  \/ \E sprites \in RowBatches : AddSprites(sprites) /\ UNCHANGED <<history, otherViews>>
  \/ \E ids \in SUBSET RowIds \ {{}} : RemoveSprites(ids) /\ UNCHANGED <<history, otherViews>>
  \/ AutoArrange /\ UNCHANGED <<history, otherViews>>

SpecRows == Init /\ [][NextRows]_vars


\* ---------------------------------------------------------------- SpecOrder
\* The operations of the placement store that write zIndex or maxZIndex or
\* change which sprites are on the canvas.
NextOrder ==
  \/ \E sprites \in Batches : AddSprites(sprites) /\ UNCHANGED <<history, otherViews>>
  \/ \E ids \in IdLists : RemoveSprites(ids) /\ UNCHANGED <<history, otherViews>>
  \/ ClearCanvas /\ UNCHANGED <<history, otherViews>>
  \/ \E id \in Ids : BringToFront(id) /\ UNCHANGED <<history, otherViews>>
  \/ \E id \in Ids : SendToBack(id) /\ UNCHANGED <<history, otherViews>>

SpecOrder == Init /\ [][NextOrder]_vars


\* ---------------------------------------------------------------- SpecChain
\* calculateSnap against candidates that stand closer to each other than the
\* threshold: one candidate's left edge is 7 px from another's right edge.
ChainPoints == {[x |-> 20, y |-> 20], [x |-> 113, y |-> 20], [x |-> 113, y |-> 200]}
ChainCanvases ==
  {[i \in DOMAIN ids |->
      [sprite |-> SnapSprite(ids[i]), x |-> at[i].x, y |-> at[i].y, zIndex |-> i]] :
     ids \in DistinctSeqsUpTo(SnapIds, NumSnapOthers), at \in [1 .. NumSnapOthers -> ChainPoints]}

InitChain ==
  /\ canvasSprites \in ChainCanvases
  /\ selectedIds = {}
  /\ maxZIndex = Len(canvasSprites)
  /\ scale = UnitScale
  /\ offsetX = 0
  /\ offsetY = 0
  /\ activeGuides = <<>>
  /\ snapEnabled = TRUE
  /\ isDragging = FALSE
  /\ isSelecting = FALSE
  /\ selectionStart = Null
  /\ selectionEnd = Null
  /\ panState = Null
  /\ dragState = Null
  /\ lastOp = [op |-> "placed"]
  /\ btfEpoch = {}
  /\ btfEver = {}
  /\ dupBatchSeen = FALSE
  /\ opCount = 0
  /\ OtherViewsIdle

SpecChain == InitChain /\ [][NextSnap]_vars


\* ------------------------------------------------------------------
\* The multi-region store (useMultiRegionStore) and the preview effect of the
\* region view.  A region is represented by its id; generateId builds the id
\* from the clock and a random suffix, modelled as a counter that is never
\* reset.  MaxRegions bounds the regions created in one run.
MaxRegions == 3
Sheet == [name |-> "sheet"]

\* useEffect([regions, spritesheet]): without a sheet nothing is scheduled;
\* otherwise every listed region gets a 200 ms timer running
\* updateRegionPreview.  The cleanup returned inside forEach is discarded, so
\* timers already set keep running.
SchedulePreviews(sheet, regs, pending) ==
  IF sheet = Null THEN pending ELSE pending \cup Range(regs)

FilterRegion(regs, id) == SelectSeq(regs, LAMBDA r : r # id)

SetSpritesheet ==
  /\ spritesheet' = Sheet
  /\ regions' = <<>>
  /\ selectedRegionId' = NoRegion
  /\ regionPreviews' = {}
  /\ pendingPreviews' = SchedulePreviews(Sheet, <<>>, pendingPreviews)
  /\ UNCHANGED <<nextRegion, composeVars, opCount, playerVars>>

\* handleAddRegion returns without a sheet; addRegion appends the new region
\* and selects it.
AddRegion ==
  /\ spritesheet # Null
  /\ nextRegion < MaxRegions
  /\ nextRegion' = nextRegion + 1
  /\ regions' = Append(regions, nextRegion + 1)
  /\ selectedRegionId' = nextRegion + 1
  /\ pendingPreviews' = SchedulePreviews(spritesheet, regions', pendingPreviews)
  /\ UNCHANGED <<spritesheet, regionPreviews, composeVars, opCount, playerVars>>

RemoveRegion(id) ==
  /\ regions' = FilterRegion(regions, id)
  /\ selectedRegionId' = IF selectedRegionId = id THEN NoRegion ELSE selectedRegionId
  /\ regionPreviews' = regionPreviews \ {id}
  /\ pendingPreviews' = SchedulePreviews(spritesheet, regions', pendingPreviews)
  /\ UNCHANGED <<spritesheet, nextRegion, composeVars, opCount, playerVars>>

SelectRegion(id) ==
  /\ selectedRegionId' = id
  /\ UNCHANGED <<spritesheet, regions, regionPreviews, pendingPreviews, nextRegion,
                 composeVars, opCount, playerVars>>

ClearRegions ==
  /\ regions' = <<>>
  /\ selectedRegionId' = NoRegion
  /\ regionPreviews' = {}
  /\ pendingPreviews' = SchedulePreviews(spritesheet, <<>>, pendingPreviews)
  /\ UNCHANGED <<spritesheet, nextRegion, composeVars, opCount, playerVars>>

ResetRegions ==
  /\ spritesheet' = Null
  /\ regions' = <<>>
  /\ selectedRegionId' = NoRegion
  /\ regionPreviews' = {}
  /\ UNCHANGED <<pendingPreviews, nextRegion, composeVars, opCount, playerVars>>

SetRegionPreview(id, previews) == previews \cup {id}

\* A timer fires and calculateRegionPreview resolves: updateRegionPreview
\* stores the preview under the id of the region it was started for.
CompletePreview(id) ==
  /\ id \in pendingPreviews
  /\ pendingPreviews' = pendingPreviews \ {id}
  /\ regionPreviews' = SetRegionPreview(id, regionPreviews)
  /\ UNCHANGED <<spritesheet, regions, selectedRegionId, nextRegion, composeVars, opCount,
                 playerVars>>

\* calculateRegionPreview rejects: the error is logged and nothing is stored.
FailPreview(id) ==
  /\ id \in pendingPreviews
  /\ pendingPreviews' = pendingPreviews \ {id}
  /\ UNCHANGED <<spritesheet, regions, selectedRegionId, regionPreviews, nextRegion,
                 composeVars, opCount, playerVars>>

\* The region view: the list offers select and delete for listed regions, the
\* clear button is disabled without regions.
NextRegions ==
  \/ SetSpritesheet
  \/ AddRegion
  \/ \E id \in Range(regions) : RemoveRegion(id)
  \/ \E id \in Range(regions) : SelectRegion(id)
  \/ regions # <<>> /\ ClearRegions
  \/ ResetRegions
  \/ \E id \in pendingPreviews : CompletePreview(id)
  \/ \E id \in pendingPreviews : FailPreview(id)

SpecRegions == Init /\ [][NextRegions]_vars


\* ------------------------------------------------------------------
\* The animation preview (AnimationPreview.tsx).  frames is a prop: the
\* player is mounted with 1 .. MaxFrames frames.
MaxFrames == 4

InitPlayer ==
  /\ ComposeIdle
  /\ RegionsIdle
  /\ frameCount \in 1..MaxFrames
  /\ currentFrame = 0
  /\ isPlaying = FALSE
  /\ loopMode = "loop"
  /\ playDirection = 1

\* The updater passed to setCurrentFrame by the animation loop: the next
\* frame, whether playback goes on, and the direction.
NextFrame(prev, n, mode, dir) ==
  LET next == prev + dir IN
    CASE mode = "loop" ->
           [frame |-> IF next >= n THEN 0 ELSE IF next < 0 THEN n - 1 ELSE next,
            playing |-> TRUE, direction |-> dir]
      [] mode = "once" ->
           IF next >= n \/ next < 0
             THEN [frame |-> prev, playing |-> FALSE, direction |-> dir]
             ELSE [frame |-> next, playing |-> TRUE, direction |-> dir]
      [] mode = "pingpong" ->
           IF next >= n THEN [frame |-> n - 2, playing |-> TRUE, direction |-> -1]
           ELSE IF next < 0 THEN [frame |-> 1, playing |-> TRUE, direction |-> 1]
           ELSE [frame |-> next, playing |-> TRUE, direction |-> dir]

\* One frame interval of the animation loop; the loop runs only while
\* playing with frames.
Tick ==
  /\ isPlaying
  /\ frameCount # 0
  /\ \E r \in {NextFrame(currentFrame, frameCount, loopMode, playDirection)} :
       /\ currentFrame' = r.frame
       /\ isPlaying' = r.playing
       /\ playDirection' = r.direction
  /\ UNCHANGED <<frameCount, loopMode, composeVars, opCount, regionVars>>

SkipFirst ==
  /\ currentFrame' = 0
  /\ UNCHANGED <<frameCount, isPlaying, loopMode, playDirection, composeVars, opCount,
                 regionVars>>

SkipLast ==
  /\ currentFrame' = frameCount - 1
  /\ UNCHANGED <<frameCount, isPlaying, loopMode, playDirection, composeVars, opCount,
                 regionVars>>

\* The play button is disabled without frames.
TogglePlay ==
  /\ frameCount > 0
  /\ isPlaying' = ~isPlaying
  /\ UNCHANGED <<frameCount, currentFrame, loopMode, playDirection, composeVars, opCount,
                 regionVars>>

CycleLoopMode ==
  /\ loopMode' = CASE loopMode = "loop" -> "once"
                   [] loopMode = "once" -> "pingpong"
                   [] OTHER -> "loop"
  /\ UNCHANGED <<frameCount, currentFrame, isPlaying, playDirection, composeVars, opCount,
                 regionVars>>

NextPlayer ==
  \/ Tick
  \/ SkipFirst
  \/ SkipLast
  \/ TogglePlay
  \/ CycleLoopMode

SpecPlayer == InitPlayer /\ [][NextPlayer]_vars

\* =================================================================== claims

\* C1 (as stated): after any sequence of addSprites and removeSprites calls, with
\* any batches, no two entries of canvasSprites have the same sprite id.
C1_IdsUniqueAnyBatch == IdsUnique(canvasSprites)

\* C1 (amended): as long as every addSprites batch so far held pairwise distinct
\* sprite ids, no two entries of canvasSprites have the same sprite id, also when
\* a batch holds sprites that are already on the canvas.
C1_IdsUniqueDistinctBatches == ~dupBatchSeen => IdsUnique(canvasSprites)

\* addSprites has just filtered a sprite already present out of a batch of
\* distinct ids, and the canvas holds two sprites.
C1_Witness ==
  /\ ~dupBatchSeen
  /\ lastOp.op = "addSprites"
  /\ lastOp.filtered > 0
  /\ Len(canvasSprites) >= 2

\* C2: after any sequence of addSprites, removeSprites, clearCanvas,
\* selectSprite, selectSpritesInRect, selectAll and deselectAll calls, every id
\* in selectedIds is the id of a sprite currently in canvasSprites.
C2_SelectedOnCanvas == selectedIds \subseteq CanvasIds(canvasSprites)

\* C6 (as stated): selectSprite(id, false) toggles {id}: the selection after the
\* call is empty if it was exactly {id} before, and exactly {id} otherwise.
C6_PlainSelectToggles ==
  (lastOp.op = "selectSprite" /\ ~lastOp.multi)
    => selectedIds = (IF lastOp.before = {lastOp.id} THEN {} ELSE {lastOp.id})

\* C6 (amended): selectSprite(id, false) replaces the selection by exactly {id},
\* whatever the selection was before the call, {id} included.
C6_PlainSelectReplaces ==
  (lastOp.op = "selectSprite" /\ ~lastOp.multi) => selectedIds = {lastOp.id}

\* selectSprite(id, false) has just been called on a sprite of the canvas that
\* was the sole selection, and it still is.
C6_Witness ==
  /\ lastOp.op = "selectSprite"
  /\ ~lastOp.multi
  /\ lastOp.id \in CanvasIds(canvasSprites)
  /\ lastOp.before = {lastOp.id}
  /\ selectedIds = {lastOp.id}

\* C7: selectSprite(id, true) toggles only the membership of id: id is in the
\* new selection iff it was not in the old one, every other id keeps its
\* membership, and a second call right after the first restores the selection
\* the first call started from.
C7_AdditiveToggle ==
  [][(lastOp'.op = "selectSprite" /\ lastOp'.multi)
       => /\ (lastOp'.id \in selectedIds') <=> (lastOp'.id \notin selectedIds)
          /\ selectedIds' \ {lastOp'.id} = selectedIds \ {lastOp'.id}
          /\ (lastOp.op = "selectSprite" /\ lastOp.multi /\ lastOp.id = lastOp'.id)
                => selectedIds' = lastOp.before]_vars

\* selectSprite(id, true) has just added a sprite of the canvas to a selection
\* that held another sprite, which is still selected.
C7_Witness ==
  /\ lastOp.op = "selectSprite"
  /\ lastOp.multi
  /\ lastOp.id \notin lastOp.before
  /\ lastOp.before # {}
  /\ selectedIds = lastOp.before \cup {lastOp.id}
  /\ selectedIds \subseteq CanvasIds(canvasSprites)

\* The zIndex of the sprite with this id (ids are unique on the canvas).
ZIndexOf(sprites, id) ==
  sprites[CHOOSE i \in DOMAIN sprites : sprites[i].sprite.id = id].zIndex

\* A step that is a bringToFront call on a sprite of the canvas.
BroughtToFront ==
  /\ lastOp'.op = "bringToFront"
  /\ lastOp'.id \in CanvasIds(canvasSprites)

\* C3: in any sequence of bringToFront calls interleaved with addSprites,
\* removeSprites, sendToBack and position updates, the zIndex that
\* bringToFront(id) gives to a sprite on the canvas is strictly greater than the
\* zIndex of every sprite on the canvas before the call and greater than every
\* zIndex an earlier bringToFront of that sequence assigned.
C3_BringToFrontAbove ==
  [][BroughtToFront
       => /\ \A i \in DOMAIN canvasSprites :
               ZIndexOf(canvasSprites', lastOp'.id) > canvasSprites[i].zIndex
          /\ \A z \in btfEpoch : ZIndexOf(canvasSprites', lastOp'.id) > z]_vars

\* bringToFront has just raised a sprite for at least the second time in the
\* sequence, on a canvas of two sprites one of which was sent to the back.
C3_Witness ==
  /\ lastOp.op = "bringToFront"
  /\ lastOp.id \in CanvasIds(canvasSprites)
  /\ Cardinality(btfEpoch) >= 2
  /\ Len(canvasSprites) >= 2
  /\ \E i \in DOMAIN canvasSprites : canvasSprites[i].zIndex = 0
  /\ ZIndexOf(canvasSprites, lastOp.id) = maxZIndex

\* C4 (as stated): over the whole lifetime of the store, clearCanvas included,
\* no two bringToFront calls ever assign the same zIndex value and maxZIndex
\* never decreases.
C4_NeverReusedNeverDecreases ==
  [][/\ maxZIndex' >= maxZIndex
     /\ BroughtToFront => ZIndexOf(canvasSprites', lastOp'.id) \notin btfEver]_vars

\* C4 (amended): clearCanvas resets maxZIndex to 0; every other operation
\* leaves maxZIndex the same or greater, and no bringToFront call assigns a
\* zIndex that an earlier bringToFront call since the last clearCanvas assigned.
C4_NeverReusedUntilCleared ==
  [][IF lastOp'.op = "clearCanvas"
       THEN maxZIndex' = 0
       ELSE /\ maxZIndex' >= maxZIndex
            /\ BroughtToFront
                 => ZIndexOf(canvasSprites', lastOp'.id) \notin btfEpoch]_vars

\* bringToFront has just raised a sprite after a clearCanvas that followed
\* earlier bringToFront calls.
C4_Witness ==
  /\ lastOp.op = "bringToFront"
  /\ lastOp.id \in CanvasIds(canvasSprites)
  /\ btfEpoch # {}
  /\ btfEpoch # btfEver

\* C5: setScale(v) stores min(5, max(0.1, v)) for every v, and after any
\* sequence of setScale calls, Ctrl+wheel zoom steps of 0.1, toolbar zoom steps
\* of 0.2 and resetView the stored scale lies in [0.1, 5.0] (scales in tenths).
C5_ScaleClamped ==
  /\ scale >= MinScale
  /\ scale <= MaxScale
  /\ lastOp.op = "setScale"
       => scale = (IF lastOp.value < MinScale THEN MinScale
                   ELSE IF lastOp.value > MaxScale THEN MaxScale
                   ELSE lastOp.value)

\* A Ctrl+wheel step at the smallest scale asked for a scale below 0.1 and the
\* store kept 0.1.
C5_Witness ==
  /\ lastOp.op = "setScale"
  /\ lastOp.via = "wheel"
  /\ lastOp.value < MinScale
  /\ scale = MinScale

\* Length of the common part of the intervals [a1, a2] and [b1, b2]; negative
\* when they are apart.
OverlapLen(a1, a2, b1, b2) == MathMin(a2, b2) - MathMax(a1, b1)
OverlapX(cs, rect) == OverlapLen(cs.x, cs.x + cs.sprite.width, rect.x, rect.x + rect.width)
OverlapY(cs, rect) == OverlapLen(cs.y, cs.y + cs.sprite.height, rect.y, rect.y + rect.height)
PositiveOverlap(cs, rect) == OverlapX(cs, rect) > 0 /\ OverlapY(cs, rect) > 0
TouchesOnly(cs, rect) ==
  /\ OverlapX(cs, rect) >= 0
  /\ OverlapY(cs, rect) >= 0
  /\ ~PositiveOverlap(cs, rect)
OverlappingIds(sprites, rect) ==
  {sprites[i].sprite.id : i \in {j \in DOMAIN sprites : PositiveOverlap(sprites[j], rect)}}

\* C8 (as stated): selectSpritesInRect(rect) replaces the selection with exactly
\* the sprites whose bounding box overlaps rect with positive area on both axes,
\* for every rect: a sprite with zero overlapping area is not selected, one with
\* positive overlap is, and nothing else of the previous selection survives.
C8_RectSelectsOverlapping ==
  lastOp.op = "selectSpritesInRect"
    => selectedIds = OverlappingIds(canvasSprites, lastOp.rect)

\* C8 (amended): for a rect of positive width and positive height,
\* selectSpritesInRect(rect) replaces the selection with exactly the sprites
\* whose bounding box overlaps rect with positive area on both axes.
C8_ProperRectSelectsOverlapping ==
  (lastOp.op = "selectSpritesInRect" /\ lastOp.rect.width > 0 /\ lastOp.rect.height > 0)
    => selectedIds = OverlappingIds(canvasSprites, lastOp.rect)

\* A rect of positive size has just been applied: it overlaps one sprite, which
\* is selected, and only touches another one, which was selected before and is
\* not any more.
C8_Witness ==
  /\ lastOp.op = "selectSpritesInRect"
  /\ lastOp.rect.width > 0
  /\ lastOp.rect.height > 0
  /\ selectedIds # {}
  /\ \E i \in DOMAIN canvasSprites :
        /\ TouchesOnly(canvasSprites[i], lastOp.rect)
        /\ canvasSprites[i].sprite.id \in lastOp.before \ selectedIds

\* v is the least x (the greatest right edge) among the sprites of sel.
IsLeastX(v, sel) ==
  (\E j \in DOMAIN sel : sel[j].x = v) /\ (\A j \in DOMAIN sel : sel[j].x >= v)
IsGreatestRight(v, sel) ==
  /\ \E j \in DOMAIN sel : sel[j].x + sel[j].sprite.width = v
  /\ \A j \in DOMAIN sel : sel[j].x + sel[j].sprite.width =< v

\* A step that is alignSelected(alignment) on at least two selected sprites.
Aligned(alignment) ==
  /\ lastOp'.op = "alignSelected"
  /\ lastOp'.alignment = alignment
  /\ lastOp'.n >= 2

\* C9: after alignSelected('left') on a selection of N >= 2 sprites all selected
\* sprites have the same x, the least x of the selected sprites before the call,
\* their y is unchanged and no unselected sprite moves; after
\* alignSelected('right') all selected sprites have the same right edge x+width,
\* the greatest right edge before the call.
C9_AlignLeftRight ==
  [][\A i \in DOMAIN canvasSprites :
       LET before == canvasSprites[i]
           after == canvasSprites'[i]
           sel == SelectedSprites(canvasSprites, selectedIds)
       IN /\ (Aligned("left") /\ before.sprite.id \in selectedIds)
               => /\ IsLeastX(after.x, sel)
                  /\ after.y = before.y
          /\ (Aligned("right") /\ before.sprite.id \in selectedIds)
               => /\ IsGreatestRight(after.x + after.sprite.width, sel)
                  /\ after.y = before.y
          /\ ((Aligned("left") \/ Aligned("right")) /\ before.sprite.id \notin selectedIds)
               => after = before]_vars

\* alignSelected('left') has just moved a sprite of a selection of at least two
\* sprites, next to a sprite that is not selected; the selected ones share x.
C9_Witness ==
  /\ lastOp.op = "alignSelected"
  /\ lastOp.alignment = "left"
  /\ lastOp.n >= 2
  /\ lastOp.n < Len(canvasSprites)
  /\ lastOp.changed
  /\ \A i, j \in DOMAIN canvasSprites :
        (canvasSprites[i].sprite.id \in selectedIds /\ canvasSprites[j].sprite.id \in selectedIds)
          => canvasSprites[i].x = canvasSprites[j].x

\* The orderings of 1 .. n.
Orderings(n) == {p \in [1 .. n -> 1 .. n] : \A a, b \in 1 .. n : p[a] = p[b] => a = b}

\* Along the ordering p of sel, every gap between a sprite's trailing edge and
\* the next sprite's leading edge is the same.
EqualGaps(sel, p) ==
  \A a, b \in 1 .. Len(sel) - 1 :
     sel[p[a + 1]].x - RightOf(sel[p[a]]) = sel[p[b + 1]].x - RightOf(sel[p[b]])

\* p orders sel by x (any order among equal x).
OrderedByX(sel, p) ==
  \A a, b \in 1 .. Len(sel) : a < b => sel[p[a]].x =< sel[p[b]].x

\* p orders sel by x, sprites of equal x in store order.
StablyOrderedByX(sel, p) ==
  \A a, b \in 1 .. Len(sel) :
     a < b => \/ sel[p[a]].x < sel[p[b]].x
              \/ sel[p[a]].x = sel[p[b]].x /\ p[a] < p[b]

\* C10 (as stated): after distributeSelected('horizontal') on any selection of
\* N >= 3 sprites, overlapping ones included, the selected sprites sorted by
\* their resulting x have the same gap between each sprite's trailing edge and
\* the next sprite's leading edge, for all adjacent pairs.
C10_EqualGapsByResultingX ==
  (lastOp.op = "distributeSelected" /\ lastOp.direction = "horizontal" /\ lastOp.n >= 3)
    => LET sel == SelectedSprites(canvasSprites, selectedIds)
       IN \E p \in Orderings(Len(sel)) : OrderedByX(sel, p) /\ EqualGaps(sel, p)

\* C10 (amended): after distributeSelected('horizontal') on any selection of
\* N >= 3 sprites, overlapping ones included, the selected sprites taken in the
\* order of their x before the call (equal x in store order) have the same gap
\* between each sprite's trailing edge and the next sprite's leading edge, for
\* all adjacent pairs.
C10_EqualGapsByPreviousX ==
  [][(lastOp'.op = "distributeSelected" /\ lastOp'.direction = "horizontal"
        /\ lastOp'.n >= 3)
       => LET sel == SelectedSprites(canvasSprites, selectedIds)
              res == SelectedSprites(canvasSprites', selectedIds)
          IN \A p \in Orderings(Len(sel)) :
                StablyOrderedByX(sel, p) => EqualGaps(res, p)]_vars

\* distributeSelected('horizontal') has just moved sprites of a selection of
\* three whose gap is negative, so far that their order by x has changed: no
\* ordering by resulting x has equal gaps.
C10_Witness ==
  /\ lastOp.op = "distributeSelected"
  /\ lastOp.direction = "horizontal"
  /\ lastOp.n >= 3
  /\ lastOp.changed
  /\ LET sel == SelectedSprites(canvasSprites, selectedIds)
     IN \A p \in Orderings(Len(sel)) : OrderedByX(sel, p) => ~EqualGaps(sel, p)

\* p orders sel by position along direction, sprites of equal position in store
\* order.
StablyOrderedAlong(sel, p, direction) ==
  \A a, b \in 1 .. Len(sel) :
     a < b => \/ MainPos(sel[p[a]], direction) < MainPos(sel[p[b]], direction)
              \/ /\ MainPos(sel[p[a]], direction) = MainPos(sel[p[b]], direction)
                 /\ p[a] < p[b]

storeVars == <<spriteVars, viewVars, sessionVars>>

\* A step that is one of the calls the failure policy covers.
DefensiveCall ==
  \/ /\ Len(SelectedSprites(canvasSprites, selectedIds)) < 2
     /\ \E alignment \in Alignments : AlignSelected(alignment)
  \/ /\ Len(SelectedSprites(canvasSprites, selectedIds)) < 3
     /\ \E direction \in Directions : DistributeSelected(direction)
  \/ canvasSprites = <<>> /\ AutoArrange
  \/ \E sprites \in Batches :
        /\ \A i \in DOMAIN sprites : sprites[i].id \in CanvasIds(canvasSprites)
        /\ AddSprites(sprites)
  \/ \E ids \in IdLists : ids \cap CanvasIds(canvasSprites) = {} /\ RemoveSprites(ids)
  \/ \E updates \in ZUpdates :
        /\ \A i \in DOMAIN updates : updates[i].id \notin CanvasIds(canvasSprites)
        /\ UpdateSpritesPosition(updates)
  \/ \E id \in Ids \ CanvasIds(canvasSprites) : BringToFront(id)
  \/ \E id \in Ids \ CanvasIds(canvasSprites) : SendToBack(id)

\* C12: the defensive no-ops leave the whole store state unchanged:
\* alignSelected with fewer than 2 selected sprites, distributeSelected with
\* fewer than 3, autoArrange on an empty canvas, addSprites whose sprites are all
\* present, removeSprites with only unknown ids, and updateSpritesPosition,
\* bringToFront and sendToBack with an id that is not on the canvas.
C12_DefensiveNoOps == [][DefensiveCall => UNCHANGED storeVars]_vars

\* A step that is an addSprites call with at least one new sprite.
AddedSprites ==
  /\ lastOp'.op = "addSprites"
  /\ Len(canvasSprites') > Len(canvasSprites)

\* The sprite at index k follows the sprite before it on the staircase: advance
\* x by the width plus 10, and past 2000 wrap to x = 20 and advance y by 200.
FollowsOnStaircase(sprites, k) ==
  LET prev == sprites[k - 1]
      advanced == prev.x + prev.sprite.width + 10
  IN IF advanced > 2000
       THEN sprites[k].x = 20 /\ sprites[k].y = prev.y + 200
       ELSE sprites[k].x = advanced /\ sprites[k].y = prev.y

\* C13 (as stated): every addSprites call with a new sprite places its new
\* sprites on the staircase that starts at (20,20), whether or not the canvas
\* already holds sprites: the first new sprite at (20,20), each following one at
\* the previous x plus the previous width plus 10, wrapping to x = 20 and
\* y + 200 when that x exceeds 2000.
C13_StaircaseFromStart ==
  [][AddedSprites
       => /\ canvasSprites'[Len(canvasSprites) + 1].x = 20
          /\ canvasSprites'[Len(canvasSprites) + 1].y = 20
          /\ \A k \in (Len(canvasSprites) + 2) .. Len(canvasSprites') :
                FollowsOnStaircase(canvasSprites', k)]_vars

\* C13 (amended): the first new sprite is at y = 20 and at x = 20 on an empty
\* canvas, at the greatest right edge of the sprites on the canvas plus 10
\* otherwise; each following new sprite is at the previous x plus the previous
\* width plus 10, wrapping to x = 20 and y + 200 when that x exceeds 2000.
C13_StaircaseRightOfCanvas ==
  [][AddedSprites
       => /\ canvasSprites'[Len(canvasSprites) + 1].y = 20
          /\ IF canvasSprites = <<>>
               THEN canvasSprites'[Len(canvasSprites) + 1].x = 20
               ELSE IsGreatestRight(canvasSprites'[Len(canvasSprites) + 1].x - 10,
                                    canvasSprites)
          /\ \A k \in (Len(canvasSprites) + 2) .. Len(canvasSprites') :
                FollowsOnStaircase(canvasSprites', k)]_vars

\* addSprites has just added two sprites to a canvas that held one: the first
\* right of it, the second wrapped to the next row.
C13_Witness ==
  /\ lastOp.op = "addSprites"
  /\ Len(canvasSprites) = 3
  /\ canvasSprites[2].x = canvasSprites[1].x + canvasSprites[1].sprite.width + 10
  /\ canvasSprites[2].y = 20
  /\ canvasSprites[3].x = 20
  /\ canvasSprites[3].y = 220

\* The bounding boxes of a and b overlap with positive area.
SpritesOverlap(a, b) ==
  /\ OverlapLen(a.x, a.x + a.sprite.width, b.x, b.x + b.sprite.width) > 0
  /\ OverlapLen(a.y, a.y + a.sprite.height, b.y, b.y + b.sprite.height) > 0

\* C14: immediately after an addSprites call, no newly added sprite's bounding
\* box overlaps with positive area the bounding box of another newly added
\* sprite or of a sprite that was already on the canvas at its own initial
\* position, for any sprite widths and heights.
C14_InitialPositionsDisjoint ==
  [][AddedSprites
       => \A k \in (Len(canvasSprites) + 1) .. Len(canvasSprites') :
             \A j \in DOMAIN canvasSprites' :
                j # k => ~SpritesOverlap(canvasSprites'[k], canvasSprites'[j])]_vars

\* C16 (as stated): snap fixed point. When calculateSnap is called for a sprite
\* A at its current position against a single sprite B whose left edge equals
\* A's left edge, whatever the sizes of A and B, the returned x is A's x.
C16_SnapFixedPoint ==
  ( /\ lastOp.op = "calculateSnap"
    /\ Len(lastOp.otherSprites) = 1
    /\ lastOp.position.x = 2 * lastOp.otherSprites[1].x )
  => lastOp.result.x = lastOp.position.x

\* Some comparison of calculateSnap, taken on the input position, is within
\* the threshold of the candidate `other` (half pixels).
ComparisonWithin(position, spriteSize, other, threshold) ==
  LET left    == position.x
      right   == position.x + 2 * spriteSize.width
      centerX == position.x + spriteSize.width
      top     == position.y
      bottom  == position.y + 2 * spriteSize.height
      centerY == position.y + spriteSize.height
      oLeft   == 2 * other.x
      oRight  == 2 * (other.x + other.sprite.width)
      oCenX   == 2 * other.x + other.sprite.width
      oTop    == 2 * other.y
      oBottom == 2 * (other.y + other.sprite.height)
      oCenY   == 2 * other.y + other.sprite.height
      near(a, b) == Abs(a - b) < 2 * threshold
  IN \/ near(left, oLeft) \/ near(right, oRight) \/ near(left, oRight)
     \/ near(right, oLeft) \/ near(centerX, oCenX)
     \/ near(top, oTop) \/ near(bottom, oBottom) \/ near(top, oBottom)
     \/ near(bottom, oTop) \/ near(centerY, oCenY)

NothingToSnapTo ==
  \A i \in DOMAIN lastOp.otherSprites :
     ~ComparisonWithin(lastOp.position, lastOp.spriteSize, lastOp.otherSprites[i], SnapThreshold)

HasGuide(guides, direction) == \E i \in DOMAIN guides : guides[i].direction = direction

\* C17: calculateSnap returns the input x and y and no guides when there are no
\* other sprites or no comparison is within the threshold; and the returned x
\* (y) differs from the input only if a vertical (horizontal) guide is returned.
C17_NoSnapIdentity ==
  lastOp.op = "calculateSnap" =>
    /\ NothingToSnapTo =>
         lastOp.result = [x |-> lastOp.position.x, y |-> lastOp.position.y, guides |-> <<>>]
    /\ lastOp.result.x # lastOp.position.x => HasGuide(lastOp.result.guides, "vertical")
    /\ lastOp.result.y # lastOp.position.y => HasGuide(lastOp.result.guides, "horizontal")

C17_Witness ==
  /\ lastOp.op = "calculateSnap"
  /\ lastOp.otherSprites # <<>>
  /\ NothingToSnapTo
  /\ lastOp.result.guides = <<>>

\* The canvas of the autoArrange scenario: sprites of sizes 200x50, 100x100 and
\* 50x50, in that order, just arranged.
ArrangedScenario ==
  /\ lastOp.op = "autoArrange"
  /\ Len(canvasSprites) = 3
  /\ \A i \in 1 .. 3 :
       /\ canvasSprites[i].sprite.width = <<200, 100, 50>>[i]
       /\ canvasSprites[i].sprite.height = <<50, 100, 50>>[i]

\* One row at y = 0, read left to right along p: starting at x = 0, areas
\* never increasing, each sprite 10 units right of the one before.
OneRowAlong(p) ==
  /\ \A i \in 1 .. 3 : canvasSprites[i].y = 0
  /\ canvasSprites[p[1]].x = 0
  /\ \A a \in 1 .. 2 :
       /\ Area(canvasSprites[p[a]]) >= Area(canvasSprites[p[a + 1]])
       /\ canvasSprites[p[a + 1]].x = RightOf(canvasSprites[p[a]]) + 10

\* C18 (as stated): autoArrange on sprites of sizes 200x50, 100x100, 50x50
\* (added in that order) places them in one row at y = 0, left to right in
\* area-descending order with 10-unit gaps, the 100x100 sprite first at x = 0.
C18_ArrangeSquareFirst ==
  ArrangedScenario => \E p \in Orderings(3) : p[1] = 2 /\ OneRowAlong(p)

\* C18 (amended): as above, but the 200x50 sprite, whose area equals that of
\* the 100x100 sprite and which was added before it, is first at x = 0; the
\* 100x100 sprite follows at x = 210 and the 50x50 sprite at x = 320.
C18_ArrangeTiesInCanvasOrder ==
  ArrangedScenario =>
    /\ OneRowAlong([i \in 1 .. 3 |-> i])
    /\ <<canvasSprites[1].x, canvasSprites[2].x, canvasSprites[3].x>> = <<0, 210, 320>>

C18_Witness ==
  /\ ArrangedScenario
  /\ canvasSprites[2].x = 210

\* C19 (as stated): gesture mutual exclusion. In every state reached by pointer
\* events at most one of the pan, marquee and drag sessions is active.
C19_OneSessionAtATime ==
  /\ ~(Panning /\ isSelecting)
  /\ ~(Panning /\ Dragging)
  /\ ~(isSelecting /\ Dragging)

SessionEnded ==
  /\ panState = Null
  /\ ~isSelecting /\ selectionStart = Null /\ selectionEnd = Null
  /\ dragState = Null /\ ~isDragging
  /\ activeGuides = <<>>

\* C20: no stuck session. After a release (mouseup) or a leave of the
\* container, panState is null, isSelecting is false with selectionStart and
\* selectionEnd null, dragState is null with isDragging false, and activeGuides
\* is empty; and activeGuides is empty in every state without a drag session.
C20_NoStuckSession ==
  /\ lastOp.op \in {"mouseUp", "mouseLeave"} => SessionEnded
  /\ ~Dragging => activeGuides = <<>>

C20_Witness ==
  /\ lastOp.op = "mouseLeave"
  /\ lastOp.dragging /\ lastOp.guides # <<>>
  /\ SessionEnded

VerticalEdgeGuides(guides) ==
  {i \in DOMAIN guides : guides[i].direction = "vertical" /\ guides[i].type = "edge"}

\* A drag tick of the scenario is about to happen: the canvas holds two 100x100
\* sprites, the first at (20,20); the second alone is being dragged from
\* (130,20), after a press that selected it; snapping is enabled.
DragScenario ==
  /\ snapEnabled
  /\ Len(canvasSprites) = 2
  /\ \A i \in 1 .. 2 : canvasSprites[i].sprite.width = 100 /\ canvasSprites[i].sprite.height = 100
  /\ canvasSprites[1].x = 20 /\ canvasSprites[1].y = 20
  /\ ~Panning /\ ~isSelecting /\ Dragging
  /\ dragState.spriteStartPositions =
       <<[id |-> canvasSprites[2].sprite.id, x |-> 130, y |-> 20]>>
  /\ selectedIds = {canvasSprites[2].sprite.id}

\* C15: adding two 100x100 sprites to an empty canvas places the first at
\* (20,20) and the second at (130,20); a drag tick of the second sprite, with
\* snapping enabled, that brings its left edge within 5 units of the first
\* sprite's right edge (120) leaves it at x = 120 exactly and publishes exactly
\* one guide of direction vertical and type edge, at position 120.
C15_AddThenSnapDrag ==
  [][ /\ ( /\ canvasSprites = <<>>
           /\ Len(canvasSprites') = 2
           /\ \A i \in 1 .. 2 : canvasSprites'[i].sprite.width = 100
                                /\ canvasSprites'[i].sprite.height = 100 )
         => /\ canvasSprites'[1].x = 20 /\ canvasSprites'[1].y = 20
            /\ canvasSprites'[2].x = 130 /\ canvasSprites'[2].y = 20
      /\ ( /\ DragScenario
           /\ lastOp'.op = "mouseMove" /\ lastOp'.branch = "drag"
           /\ Abs(130 + lastOp'.dx - 120) <= 5 )
         => /\ canvasSprites'[2].x = 120
            /\ Cardinality(VerticalEdgeGuides(activeGuides')) = 1
            /\ \A i \in VerticalEdgeGuides(activeGuides') : activeGuides'[i].position = 120
    ]_vars

C15_Witness ==
  /\ DragScenario
  /\ lastOp.op = "mouseMove" /\ lastOp.branch = "drag" /\ lastOp.dx = -7
  /\ canvasSprites[2].x = 120 /\ canvasSprites[2].y = 20
  /\ \E i \in DOMAIN activeGuides :
        activeGuides[i] = [direction |-> "vertical", position |-> 120, type |-> "edge"]

\* The ids of the drag session's snapshot, and the displacement of a moving
\* sprite that is still on the canvas from its start position.
MovingIds == {dragState.spriteStartPositions[k].id : k \in DOMAIN dragState.spriteStartPositions}
OnCanvas(id) == canvasSprites[CHOOSE i \in DOMAIN canvasSprites : canvasSprites[i].sprite.id = id]
Displacement(k) ==
  LET e == dragState.spriteStartPositions[k]
  IN <<OnCanvas(e.id).x - e.x, OnCanvas(e.id).y - e.y>>

\* A drag tick with two or more moving sprites, all on the canvas, has just
\* computed a snap.
MultiDragTick ==
  /\ lastOp.op = "mouseMove" /\ lastOp.branch = "drag" /\ lastOp.snapped
  /\ Dragging
  /\ Len(dragState.spriteStartPositions) >= 2
  /\ MovingIds \subseteq CanvasIds(canvasSprites)

\* C21 (as stated): after a drag tick with snapping enabled and two or more
\* sprites in the drag session, position - start position is the same vector
\* for all moving sprites.
C21_MultiDragUniform ==
  MultiDragTick =>
    \A j, k \in DOMAIN dragState.spriteStartPositions : Displacement(j) = Displacement(k)

\* C22 (as stated): on a drag tick that computes a snap, no sprite of the drag
\* session's snapshot is among the candidates passed to calculateSnap.
C22_CandidatesNotMoving ==
  ( /\ lastOp.op = "mouseMove" /\ lastOp.branch = "drag" /\ lastOp.snapped
    /\ Dragging )
  => lastOp.candidates \cap MovingIds = {}

\* C23 (as stated): after a press on sprite s, s is selected; if s was
\* unselected and neither Shift nor Ctrl was held the selection is exactly {s};
\* if s was selected or the press is multi-select, every previously selected
\* id is still selected.
C23_PressSelects ==
  [][ lastOp'.op = "spriteMouseDown" =>
        /\ lastOp'.id \in selectedIds'
        /\ (lastOp'.id \notin selectedIds /\ ~lastOp'.multi) => selectedIds' = {lastOp'.id}
        /\ (lastOp'.id \in selectedIds \/ lastOp'.multi) => selectedIds \subseteq selectedIds'
    ]_vars

\* C24: after every press on a sprite, the zIndex of the pressed sprite is
\* strictly greater than the zIndex of every other sprite on the canvas.
C24_PressedOnTop ==
  lastOp.op = "spriteMouseDown" =>
    \A i \in DOMAIN canvasSprites :
       canvasSprites[i].sprite.id # lastOp.id => canvasSprites[i].zIndex < ZIndexOf(canvasSprites, lastOp.id)

C24_Witness ==
  /\ lastOp.op = "spriteMouseDown"
  /\ lastOp.id = canvasSprites[1].sprite.id
  /\ Len(canvasSprites) >= 3
  /\ canvasSprites[1].zIndex > canvasSprites[3].zIndex

\* The sprites of the canvas whose id is not in ids, as they are.
Remaining(ids) ==
  LET keep == SetToSeq({i \in DOMAIN canvasSprites : canvasSprites[i].sprite.id \notin ids})
  IN [k \in DOMAIN keep |-> canvasSprites[keep[k]]]

\* C27: Delete with a non-empty selection removes exactly the selected sprites
\* and empties the selection, the remaining sprites keeping position and
\* zIndex, also during a drag session; and no drag tick brings a sprite back
\* to the canvas.
C27_DeleteRemovesSelected ==
  [][ /\ ( lastOp'.op = "keyDown" /\ lastOp'.key = "Delete" /\ selectedIds # {} )
         => /\ canvasSprites' = Remaining(selectedIds)
            /\ selectedIds' = {}
      /\ lastOp'.op = "mouseMove"
         => /\ Len(canvasSprites') = Len(canvasSprites)
            /\ \A i \in DOMAIN canvasSprites :
                  canvasSprites'[i].sprite = canvasSprites[i].sprite
    ]_vars

\* A drag tick has run after a sprite of the session was deleted.
C27_Witness ==
  /\ lastOp.op = "mouseMove" /\ lastOp.branch = "drag"
  /\ Dragging
  /\ ~(MovingIds \subseteq CanvasIds(canvasSprites))
  /\ canvasSprites # <<>>

\* The arrow key that undoes key.
Opposite(key) ==
  CASE key = "ArrowUp" -> "ArrowDown"
    [] key = "ArrowDown" -> "ArrowUp"
    [] key = "ArrowLeft" -> "ArrowRight"
    [] key = "ArrowRight" -> "ArrowLeft"

\* The signed distance an arrow key moves along x and along y.
ArrowX(key, shiftKey) ==
  CASE key = "ArrowLeft" -> IF shiftKey THEN -10 ELSE -1
    [] key = "ArrowRight" -> IF shiftKey THEN 10 ELSE 1
    [] OTHER -> 0
ArrowY(key, shiftKey) ==
  CASE key = "ArrowUp" -> IF shiftKey THEN -10 ELSE -1
    [] key = "ArrowDown" -> IF shiftKey THEN 10 ELSE 1
    [] OTHER -> 0

\* C26: an arrow-key press with a non-empty selection moves every selected
\* sprite by 1 world unit (10 with Shift) along the key's axis and direction,
\* leaves the other coordinate, every unselected sprite, the selection and all
\* zIndex values unchanged, corrects nothing by snapping and publishes no
\* guides; the opposite arrow restores the previous positions.
C26_ArrowNudge ==
  /\ [][ ( lastOp'.op = "keyDown" /\ lastOp'.key \in ArrowKeys /\ selectedIds # {} )
         => /\ Len(canvasSprites') = Len(canvasSprites)
            /\ \A i \in DOMAIN canvasSprites :
                  LET old == canvasSprites[i]
                      new == canvasSprites'[i]
                  IN IF old.sprite.id \in selectedIds
                       THEN /\ new.x = old.x + ArrowX(lastOp'.key, lastOp'.shiftKey)
                            /\ new.y = old.y + ArrowY(lastOp'.key, lastOp'.shiftKey)
                            /\ new.zIndex = old.zIndex
                            /\ new.sprite = old.sprite
                       ELSE new = old
            /\ selectedIds' = selectedIds
            /\ maxZIndex' = maxZIndex
            /\ activeGuides' = activeGuides /\ activeGuides = <<>>
     ]_vars
  /\ [](\A key \in ArrowKeys, shiftKey \in BOOLEAN :
          NudgeResult(NudgeResult(canvasSprites, selectedIds, key, shiftKey),
                      selectedIds, Opposite(key), shiftKey) = canvasSprites)

\* With snapping on, the first sprite was nudged to 1 unit from touching the
\* second, well inside the snap threshold, and stays there.
C26_Witness ==
  /\ lastOp.op = "keyDown" /\ lastOp.key = "ArrowRight" /\ ~lastOp.shiftKey
  /\ snapEnabled
  /\ Len(canvasSprites) >= 2
  /\ canvasSprites[1].sprite.id \in selectedIds
  /\ canvasSprites[2].sprite.id \notin selectedIds
  /\ canvasSprites[1].x + canvasSprites[1].sprite.width = canvasSprites[2].x + 1

\* The reference operator: the ten rules for one other sprite, every rule
\* comparing an edge or centre of the moving rectangle at its input position.
RefSnapAgainst(st, other, position, spriteSize, threshold) ==
  LET t             == 2 * threshold
      w             == 2 * spriteSize.width
      h             == 2 * spriteSize.height
      spriteRight   == position.x + w
      spriteBottom  == position.y + h
      spriteCenterX == position.x + spriteSize.width
      spriteCenterY == position.y + spriteSize.height
      otherX        == 2 * other.x
      otherY        == 2 * other.y
      otherRight    == otherX + 2 * other.sprite.width
      otherBottom   == otherY + 2 * other.sprite.height
      otherCenterX  == otherX + other.sprite.width
      otherCenterY  == otherY + other.sprite.height
      s1  == SnapRule(st, "x", Abs(position.x - otherX) < t, otherX,
                      Guide("vertical", otherX, "edge"))
      s2  == SnapRule(s1, "x", Abs(spriteRight - otherRight) < t, otherRight - w,
                      Guide("vertical", otherRight, "edge"))
      s3  == SnapRule(s2, "x", Abs(position.x - otherRight) < t, otherRight,
                      Guide("vertical", otherRight, "edge"))
      s4  == SnapRule(s3, "x", Abs(spriteRight - otherX) < t, otherX - w,
                      Guide("vertical", otherX, "edge"))
      s5  == SnapRule(s4, "x", Abs(spriteCenterX - otherCenterX) < t,
                      otherCenterX - spriteSize.width,
                      Guide("vertical", otherCenterX, "center"))
      s6  == SnapRule(s5, "y", Abs(position.y - otherY) < t, otherY,
                      Guide("horizontal", otherY, "edge"))
      s7  == SnapRule(s6, "y", Abs(spriteBottom - otherBottom) < t, otherBottom - h,
                      Guide("horizontal", otherBottom, "edge"))
      s8  == SnapRule(s7, "y", Abs(position.y - otherBottom) < t, otherBottom,
                      Guide("horizontal", otherBottom, "edge"))
      s9  == SnapRule(s8, "y", Abs(spriteBottom - otherY) < t, otherY - h,
                      Guide("horizontal", otherY, "edge"))
      s10 == SnapRule(s9, "y", Abs(spriteCenterY - otherCenterY) < t,
                      otherCenterY - spriteSize.height,
                      Guide("horizontal", otherCenterY, "center"))
  IN s10

RECURSIVE RefSnapFrom(_, _, _, _, _)
RefSnapFrom(st, otherSprites, position, spriteSize, threshold) ==
  IF otherSprites = <<>> THEN st
  ELSE RefSnapFrom(RefSnapAgainst(st, Head(otherSprites), position, spriteSize, threshold),
                   Tail(otherSprites), position, spriteSize, threshold)

\* C28: calculateSnap returns what the reference 'ordered rules, last match
\* wins' operator returns, in which every rule compares the moving rectangle
\* at its input position with the other sprite.
C28_SnapEqualsReference ==
  lastOp.op = "calculateSnap" =>
    lastOp.result = RefSnapFrom([x |-> lastOp.position.x, y |-> lastOp.position.y, guides |-> <<>>],
                                lastOp.otherSprites, lastOp.position, lastOp.spriteSize,
                                SnapThreshold)

\* C29: gesture start conditions are disjoint: after every middle-button or
\* Alt+left press, over a sprite or not, a pan session is active; a drag
\* session begins only at a left press without Alt over a sprite; a marquee
\* session begins only at a left press without Alt on empty canvas; no press
\* begins two sessions.
C29_GestureStartsDisjoint ==
  [][ lastOp'.op \in {"mouseDown", "spriteMouseDown"} =>
        /\ lastOp'.press = "pan" => Panning'
        /\ (~Dragging /\ Dragging')
              => lastOp'.op = "spriteMouseDown" /\ lastOp'.press = "left"
        /\ (~isSelecting /\ isSelecting')
              => lastOp'.op = "mouseDown" /\ lastOp'.press = "left"
        /\ Cardinality({s \in {"pan", "drag", "marquee"} :
                          \/ s = "pan" /\ ~Panning /\ Panning'
                          \/ s = "drag" /\ ~Dragging /\ Dragging'
                          \/ s = "marquee" /\ ~isSelecting /\ isSelecting'}) <= 1
    ]_vars

\* The world point under a client point in the current view.
WorldPoint(clientX, clientY) ==
  [x |-> ToWorld(clientX, offsetX), y |-> ToWorld(clientY, offsetY)]

\* The rectangle spanned by two world points.
SpannedRect(a, b) ==
  [x |-> IF a.x < b.x THEN a.x ELSE b.x, y |-> IF a.y < b.y THEN a.y ELSE b.y,
   width |-> Abs(a.x - b.x), height |-> Abs(a.y - b.y)]

\* C25: a left press on empty canvas starts the marquee at the press point
\* and, without Shift, clears the selection; moves keep the press point; a
\* release with a marquee open ends it and commits selectSpritesInRect with
\* the rectangle spanned by the press point and the last point of the pointer
\* iff its width and height both exceed 5 world units, and otherwise leaves
\* the selection as it was.
C25_MarqueeCommit ==
  [][ /\ ( lastOp'.op = "mouseDown" /\ lastOp'.press = "left" /\ lastOp'.onCanvas )
         => /\ isSelecting'
            /\ selectionStart' = WorldPoint(lastOp'.clientX, lastOp'.clientY)
            /\ selectedIds' = IF lastOp'.shiftKey THEN selectedIds ELSE {}
      /\ lastOp'.op = "mouseMove"
         => selectionStart' = selectionStart /\ selectedIds' = selectedIds
      /\ ( lastOp'.op \in {"mouseUp", "mouseLeave"} /\ isSelecting )
         => LET rect == SpannedRect(selectionStart, WorldPoint(lastOp.clientX, lastOp.clientY))
            IN /\ ~isSelecting'
               /\ selectedIds' = IF rect.width > 5 /\ rect.height > 5
                                   THEN SpritesInRect(canvasSprites, rect)
                                   ELSE selectedIds
    ]_vars

\* A marquee was committed at scale 2 and selected the second sprite alone.
C25_Witness ==
  /\ lastOp.op = "mouseUp" /\ lastOp.selecting
  /\ scale = 2 * UnitScale
  /\ Len(canvasSprites) >= 2
  /\ selectedIds = {canvasSprites[2].sprite.id}

\* C30: a middle or Alt+left press captures the pointer and the offset; while
\* the pan session is active every pointer move sets the offset to the
\* captured offset plus (pointer - captured pointer) in screen units, whatever
\* the scale and the earlier moves, and changes neither the capture, the
\* scale, the sprites nor the selection; a move back to the captured pointer
\* restores the captured offset.
C30_PanOffset ==
  [][ /\ ( lastOp'.op = "mouseDown" /\ lastOp'.press = "pan" )
         => panState' = [isPanning |-> TRUE,
                         startX |-> lastOp'.clientX, startY |-> lastOp'.clientY,
                         startOffsetX |-> offsetX, startOffsetY |-> offsetY]
      /\ ( lastOp'.op = "mouseMove" /\ Panning )
         => /\ offsetX' = panState.startOffsetX + lastOp'.clientX - panState.startX
            /\ offsetY' = panState.startOffsetY + lastOp'.clientY - panState.startY
            /\ ( lastOp'.clientX = panState.startX => offsetX' = panState.startOffsetX )
            /\ ( lastOp'.clientY = panState.startY => offsetY' = panState.startOffsetY )
            /\ panState' = panState
            /\ scale' = scale
            /\ canvasSprites' = canvasSprites
            /\ selectedIds' = selectedIds
            /\ maxZIndex' = maxZIndex
    ]_vars

\* At scale 2, a pan that began with a non-zero offset has moved the view.
C30_Witness ==
  /\ lastOp.op = "mouseMove" /\ lastOp.branch = "pan"
  /\ scale = 2 * UnitScale
  /\ panState.startOffsetX # 0
  /\ offsetX # panState.startOffsetX
  /\ offsetX # 0

\* C31: with snapping disabled, a drag tick puts every sprite of the drag
\* session at its session-start position plus (pointer - press point) / scale,
\* consults no snap and leaves activeGuides alone; at the press point every
\* dragged sprite is back at its start, and sprites outside the session, the
\* zIndex values and the selection do not change.
C31_UnsnappedDrag ==
  [][ ( lastOp'.op = "mouseMove" /\ lastOp'.branch = "drag" /\ ~snapEnabled )
      => /\ ~lastOp'.snapped
         /\ activeGuides' = activeGuides
         /\ selectedIds' = selectedIds
         /\ Len(canvasSprites') = Len(canvasSprites)
         /\ \A i \in DOMAIN canvasSprites :
              LET old == canvasSprites[i]
                  new == canvasSprites'[i]
              IN /\ new.sprite = old.sprite /\ new.zIndex = old.zIndex
                 /\ old.sprite.id \notin MovingIds => new = old
                 /\ \A k \in DOMAIN dragState.spriteStartPositions :
                      LET e == dragState.spriteStartPositions[k]
                      IN e.id = old.sprite.id =>
                           /\ (new.x - e.x) * scale = (lastOp'.clientX - dragState.startX) * UnitScale
                           /\ (new.y - e.y) * scale = (lastOp'.clientY - dragState.startY) * UnitScale
                           /\ ( lastOp'.clientX = dragState.startX /\ lastOp'.clientY = dragState.startY )
                                => new.x = e.x /\ new.y = e.y
    ]_vars

\* With snapping off, two sprites were dragged together and one of them
\* stopped less than the snap threshold from another sprite's left edge.
C31_Witness ==
  /\ lastOp.op = "mouseMove" /\ lastOp.branch = "drag" /\ ~snapEnabled
  /\ Dragging
  /\ Len(dragState.spriteStartPositions) >= 2
  /\ MovingIds \subseteq CanvasIds(canvasSprites)
  /\ Displacement(1) = Displacement(2)
  /\ Displacement(1) # <<0, 0>>
  /\ \E i \in DOMAIN canvasSprites :
        /\ canvasSprites[i].sprite.id \notin MovingIds
        /\ \E k \in DOMAIN dragState.spriteStartPositions :
              Abs(OnCanvas(dragState.spriteStartPositions[k].id).x - canvasSprites[i].x) \in 1 .. 7

\* C32: autoArrange on a non-empty canvas writes positions only: the sprites,
\* their order in canvasSprites, each zIndex, maxZIndex, the selection and the
\* viewport are as before, one sprite is at the origin, and arranging the
\* arranged canvas again changes no position.
C32_ArrangeFrame ==
  [][ ( lastOp'.op = "autoArrange" /\ canvasSprites # <<>> )
      => /\ Len(canvasSprites') = Len(canvasSprites)
         /\ \A i \in DOMAIN canvasSprites :
               /\ canvasSprites'[i].sprite = canvasSprites[i].sprite
               /\ canvasSprites'[i].zIndex = canvasSprites[i].zIndex
         /\ \E i \in DOMAIN canvasSprites : canvasSprites'[i].x = 0 /\ canvasSprites'[i].y = 0
         /\ maxZIndex' = maxZIndex
         /\ selectedIds' = selectedIds
         /\ scale' = scale /\ offsetX' = offsetX /\ offsetY' = offsetY
         /\ AutoArrangeResult(canvasSprites') = canvasSprites'
         /\ lastOp.op = "autoArrange" => canvasSprites' = canvasSprites
    ]_vars

\* An arranged canvas of two or more sprites, some selected, whose z-order is
\* not the canvas order.
C32_Witness ==
  /\ lastOp.op = "autoArrange"
  /\ Len(canvasSprites) >= 2
  /\ selectedIds # {}
  /\ canvasSprites[1].zIndex > canvasSprites[2].zIndex
  /\ canvasSprites[1].x > canvasSprites[2].x

\* C33: clearCanvas leaves no sprite, no selected id, no guide and
\* maxZIndex = 0, and leaves scale, offset and snapEnabled as they were; the
\* next addSprites after it puts its first sprite at (20,20) with zIndex 1.
C33_ClearCanvas ==
  [][ /\ lastOp'.op = "clearCanvas"
         => /\ canvasSprites' = <<>>
            /\ selectedIds' = {}
            /\ activeGuides' = <<>>
            /\ maxZIndex' = 0
            /\ scale' = scale /\ offsetX' = offsetX /\ offsetY' = offsetY
            /\ snapEnabled' = snapEnabled
      /\ ( lastOp.op = "clearCanvas" /\ lastOp'.op = "addSprites" )
         => /\ canvasSprites' # <<>>
            /\ canvasSprites'[1].x = 20 /\ canvasSprites'[1].y = 20
            /\ canvasSprites'[1].zIndex = 1
    ]_vars

\* Sprites were added to a canvas that was cleared at scale 2 in the middle
\* of a drag.
C33_Witness ==
  /\ lastOp.op = "addSprites"
  /\ Len(canvasSprites) >= 2
  /\ canvasSprites[1].zIndex = 1 /\ canvasSprites[2].zIndex = 2
  /\ canvasSprites[1].sprite.id > canvasSprites[2].sprite.id
  /\ Dragging
  /\ scale = 2 * UnitScale

\* The y values of the rows on the canvas, and the sprites of one row.
RowYs == {canvasSprites[i].y : i \in DOMAIN canvasSprites}
RowOf(y) == {i \in DOMAIN canvasSprites : canvasSprites[i].y = y}
Tallest(y) ==
  CHOOSE h \in {canvasSprites[i].sprite.height : i \in RowOf(y)} :
     \A i \in RowOf(y) : canvasSprites[i].sprite.height <= h
OverlapArea(a, b) ==
  /\ a.x < b.x + b.sprite.width /\ b.x < a.x + a.sprite.width
  /\ a.y < b.y + b.sprite.height /\ b.y < a.y + a.sprite.height

\* C34: after autoArrange no two sprites overlap with positive area; in a row
\* every sprite but the first starts exactly 10 units right of another
\* sprite of the row and ends at or before x = 1500; the first row is at y = 0
\* and every other row at the y of a row above it plus that row's tallest
\* height plus 10; every row starts at x = 0.
C34_ArrangeRows ==
  lastOp.op = "autoArrange" =>
    /\ \A i, j \in DOMAIN canvasSprites :
          i # j => ~OverlapArea(canvasSprites[i], canvasSprites[j])
    /\ \A i \in DOMAIN canvasSprites :
          LET cs == canvasSprites[i]
          IN /\ cs.x >= 0
             /\ cs.x > 0 =>
                  /\ cs.x + cs.sprite.width <= 1500
                  /\ \E j \in RowOf(cs.y) :
                        canvasSprites[j].x + canvasSprites[j].sprite.width + 10 = cs.x
    /\ \A y \in RowYs :
          /\ \E i \in RowOf(y) : canvasSprites[i].x = 0
          /\ y >= 0
          /\ y > 0 => \E p \in RowYs :
                        /\ p < y /\ y = p + Tallest(p) + 10
                        /\ \A q \in RowYs : ~(p < q /\ q < y)

\* An arrangement in three rows, the first with two sprites.
C34_Witness ==
  /\ lastOp.op = "autoArrange"
  /\ Cardinality(RowYs) >= 3
  /\ Cardinality(RowOf(0)) >= 2

\* C35: in every reachable state every zIndex on the canvas is at least 0 and
\* at most maxZIndex, and two canvas entries with the same zIndex both have
\* zIndex 0.
C35_ZOrderBookkeeping ==
  /\ \A i \in DOMAIN canvasSprites :
        canvasSprites[i].zIndex >= 0 /\ canvasSprites[i].zIndex <= maxZIndex
  /\ \A i, j \in DOMAIN canvasSprites :
        ( i # j /\ canvasSprites[i].zIndex = canvasSprites[j].zIndex )
           => canvasSprites[i].zIndex = 0

\* Two sprites were sent to the back after the counter had passed the number
\* of sprites ever added.
C35_Witness ==
  /\ Len(canvasSprites) >= 2
  /\ canvasSprites[1].zIndex = 0 /\ canvasSprites[2].zIndex = 0
  /\ maxZIndex > Len(canvasSprites)
  /\ lastOp.op = "sendToBack"

\* C36: the x and the y returned by calculateSnap each differ from the input
\* position by less than the threshold.
C36_SnapWithinThreshold ==
  lastOp.op = "calculateSnap" =>
    /\ Abs(lastOp.result.x - lastOp.position.x) < 2 * SnapThreshold
    /\ Abs(lastOp.result.y - lastOp.position.y) < 2 * SnapThreshold

\* C37: in every reachable state of the region store, whatever the
\* interleaving of addRegion, removeRegion, clearRegions, setSpritesheet,
\* reset, selectRegion and the delayed preview completions, every key of
\* regionPreviews is the id of a region in regions and selectedRegionId is
\* null or the id of a region in regions.
C37_RegionStoreConsistent ==
  /\ regionPreviews \subseteq Range(regions)
  /\ selectedRegionId = NoRegion \/ selectedRegionId \in Range(regions)

\* C38: for every frame count >= 1 and every loop mode, after any sequence of
\* playback ticks, skip-to-first, skip-to-last and loop-mode changes,
\* currentFrame is an integer in [0, frames.length - 1]; and in mode 'once' a
\* tick taken at the last frame stops playback and stays on that frame.
C38_FrameIndexValid ==
  /\ [](frameCount >= 1 => currentFrame \in 0..(frameCount - 1))
  /\ [][(Tick /\ loopMode = "once" /\ currentFrame = frameCount - 1)
          => (currentFrame' = currentFrame /\ ~isPlaying')]_vars

====
